---- MODULE Spec2Model ----
(***************************************************************************)
(* State-machine model of tools/mkimage.py: the layout orchestrator        *)
(* (create_bios_image, create_uefi_image, create_iso_image), the FAT16 and *)
(* exFAT formatters, the GPT/MBR partitioner and the ISO 9660 builder.     *)
(*                                                                         *)
(* The image buffer is modelled byte for byte.  It is kept sparse: only    *)
(* the 512-byte sectors that were written are stored, an absent sector is  *)
(* all zero.  A payload (boot loader, kernel, file content) is a blob      *)
(* whose i-th byte is BlobByte(id, i); a sector that holds payload bytes   *)
(* is stored as a reference into its blob and expanded when it is read.    *)
(* Besides the three modes of main, the mode "fat16" drives the public     *)
(* interface of Fat16Formatter on a volume of its own.                     *)
(***************************************************************************)
EXTENDS Integers, Sequences, FiniteSets, TLC

VARIABLES
    pc,          \* position of the running create_*_image / populate call
    mode,        \* "bios" | "uefi" | "iso" | "fat16"
    args,        \* the command line (argparse namespace)
    locals,      \* local variables of create_*_image: the (patched) stage 2
                 \* and the flat kernel once elf_to_flat_binary returned
    image,       \* the image buffer (len = -1 before bytearray(image_size)),
                 \* with the ghost log of every slice assignment made to it
    fat,         \* the Fat16Formatter instance
    exf,         \* the ExFatFormatter instance
    iso,         \* the Iso9660Creator instance and the layout of write_image
    stack,       \* the recursion stack of _populate_dir
    out_writes,  \* the writes made to the output file, in order
    err          \* "" while running, else the error the run aborted with

vars == <<pc, mode, args, locals, image, fat, exf, iso, stack, out_writes, err>>

-----------------------------------------------------------------------------
(* Program constants *)

SECTOR_SIZE == 512
KERNEL_LMA == 1048576
PT_LOAD == 1
ISO_BLOCK_SIZE == 2048
GPT_ENTRY_SIZE == 128
GPT_ENTRY_COUNT == 128
GPT_HEADER_SIZE == 92
KERNEL_START_SECTOR == 64
STAGE2_MAX_SECTORS == 63
ESP_START == 2048
ESP_SECTORS == 6144

(* Bounds of the model *)

\* Payload bytes are drawn from 1..BlobMod (never 0, so that a written byte
\* differs from an untouched one).
BlobMod == 250
\* Slack sectors that follow a stand-alone FAT16 volume in its image.
TailSectors == 4

-----------------------------------------------------------------------------
(* Arithmetic and byte helpers *)

CeilDiv(a, b) == (a + b - 1) \div b
Min(a, b) == IF a < b THEN a ELSE b
Max(a, b) == IF a > b THEN a ELSE b

\* struct.pack('<H' / '<I' / '<Q', v): the n little-endian bytes of v
RECURSIVE PackLE(_, _)
PackLE(v, n) == IF n = 0 THEN <<>> ELSE <<v % 256>> \o PackLE(v \div 256, n - 1)
\* struct.unpack_from('<H' / '<I', b, off): off is 0-based
RECURSIVE UnpackLE(_, _, _)
UnpackLE(b, off, n) ==
    IF n = 0 THEN 0 ELSE b[off + 1] + 256 * UnpackLE(b, off + 1, n - 1)
\* bytearray(n) as a tuple
Zeros(n) == SubSeq([i \in 1..n |-> 0], 1, n)
\* b[off:off+len(data)] = data on a byte sequence, off 0-based, in range
Splice(b, off, data) ==
    SubSeq(b, 1, off) \o data \o SubSeq(b, off + Len(data) + 1, Len(b))

\* a run of struct.pack_into / slice assignments: fields[k] = <<off, bytes>>
SetFields(b, fields) ==
    LET RECURSIVE Go(_, _)
        Go(acc, k) == IF k > Len(fields) THEN acc
                      ELSE Go(Splice(acc, fields[k][1], fields[k][2]), k + 1)
    IN  Go(b, 1)

\* for i in range(lo, hi + 1): acc = Op(acc, i).  The range is split in halves
\* so that a long loop does not nest as deep as it is long; the test of `left`
\* makes the first half's result a value before the second half starts.
RECURSIVE FoldRange(_, _, _, _)
FoldRange(Op(_, _), acc, lo, hi) ==
    IF lo > hi THEN acc
    ELSE IF lo = hi THEN Op(acc, lo)
    ELSE LET mid == (lo + hi) \div 2
             left == FoldRange(Op, acc, lo, mid)
         IN  IF left = left THEN FoldRange(Op, left, mid + 1, hi) ELSE acc
\* the same loop over a world, which raises: an iteration after an exception
\* does nothing
RECURSIVE FoldW(_, _, _, _)
FoldW(Op(_, _), w, lo, hi) ==
    IF lo > hi \/ w.err # "" THEN w
    ELSE IF lo = hi THEN Op(w, lo)
    ELSE LET mid == (lo + hi) \div 2
             left == FoldW(Op, w, lo, mid)
         IN  IF left.err # "" THEN left ELSE FoldW(Op, left, mid + 1, hi)

\* the statements that follow a call: skipped when the call raised
Bind(w, Rest(_)) == IF w.err # "" THEN w ELSE Rest(w)
\* a local variable: v is computed once and named in Body
With(v, Body(_)) == Body(v)

\* The i-th byte (0-based) of payload blob id
BlobByte(id, i) == ((id * 31 + i * 7) % BlobMod) + 1

-----------------------------------------------------------------------------
(* Byte strings.  A byte string is either a literal (blob = 0, the bytes   *)
(* are lit) or n bytes of payload blob `blob` from offset off, followed by *)
(* pad zero bytes.                                                         *)

Lit(seq) == [blob |-> 0, off |-> 0, n |-> 0, pad |-> 0, lit |-> seq]
Blob(id, len) == [blob |-> id, off |-> 0, n |-> len, pad |-> 0, lit |-> <<>>]
BLen(d) == IF d.blob = 0 THEN Len(d.lit) ELSE d.n + d.pad
\* d[i], i 0-based
BByte(d, i) ==
    IF d.blob = 0 THEN d.lit[i + 1]
    ELSE IF i < d.n THEN BlobByte(d.blob, d.off + i) ELSE 0
\* bytes(d): the literal byte sequence
BBytes(d) ==
    IF d.blob = 0 THEN d.lit
    ELSE SubSeq([i \in 1..BLen(d) |-> BByte(d, i - 1)], 1, BLen(d))
\* d[o:o+n], cut at the end of d as a Python slice is
BSlice(d, o, n) ==
    LET m == Max(0, Min(n, BLen(d) - o))
    IN  IF d.blob = 0 THEN Lit(SubSeq(d.lit, o + 1, o + m))
        ELSE LET k == Max(0, Min(m, d.n - o))
             IN  [blob |-> d.blob, off |-> d.off + o, n |-> k, pad |-> m - k,
                  lit |-> <<>>]
\* d + b'\x00' * (total - len(d)) when d is shorter than total
BPad(d, total) ==
    IF BLen(d) >= total THEN d
    ELSE IF d.blob = 0 THEN Lit(d.lit \o Zeros(total - Len(d.lit)))
    ELSE [d EXCEPT !.pad = total - d.n]

-----------------------------------------------------------------------------
(* The image buffer: len bytes; sec maps the index of every sector that    *)
(* was written to its 512 bytes; log is ghost: for every component (who)   *)
(* that assigned slices, the byte range <<lo, hi>> its assignments span.   *)

NoImage == [len |-> -1, sec |-> <<>>, log |-> <<>>, who |-> ""]
\* bytearray(image_size)
NewImage(size) == [NoImage EXCEPT !.len = size]
\* the stored bytes of sector s (a short last sector reads as zero-filled)
SecOf(im, s) == IF s \in DOMAIN im.sec THEN im.sec[s] ELSE Lit(Zeros(SECTOR_SIZE))
\* im[off:off+n]: cut at the end of the buffer as a Python slice is
ReadBytes(im, off, n) ==
    LET m == Max(0, Min(n, im.len - off))
    IN  IF m = SECTOR_SIZE /\ off % SECTOR_SIZE = 0
        THEN BBytes(SecOf(im, off \div SECTOR_SIZE))
        ELSE SubSeq([i \in 1..m |->
                        BByte(SecOf(im, (off + i - 1) \div SECTOR_SIZE),
                              (off + i - 1) % SECTOR_SIZE)], 1, m)
\* im[off:off+len(d)] = d.  A slice that starts or ends past the end of a
\* bytearray is cut to it first, so the bytes land at min(off, len) and the
\* buffer grows.
SliceAssign(im, off, d) ==
    LET Put(lo, hi) ==
            LET NewSec(s) ==
                    LET base == s * SECTOR_SIZE
                        old == SecOf(im, s)
                    IN  IF lo <= base /\ base + SECTOR_SIZE <= hi
                        THEN BSlice(d, base - lo, SECTOR_SIZE)
                        ELSE Lit(SubSeq([i \in 1..SECTOR_SIZE |->
                                    IF base + i - 1 >= lo /\ base + i - 1 < hi
                                    THEN BByte(d, base + i - 1 - lo)
                                    ELSE BByte(old, i - 1)], 1, SECTOR_SIZE))
            IN  [im EXCEPT
                    !.len = IF hi > @ THEN hi ELSE @,
                    !.sec = [s \in (lo \div SECTOR_SIZE)..((hi - 1) \div SECTOR_SIZE)
                                |-> NewSec(s)] @@ @,
                    !.log = IF im.who \in DOMAIN @
                            THEN [@ EXCEPT ![im.who] =
                                     <<IF lo < @[1] THEN lo ELSE @[1],
                                       IF hi > @[2] THEN hi ELSE @[2]>>]
                            ELSE @ @@ (im.who :> <<lo, hi>>)]
    IN  IF BLen(d) = 0 THEN im
        ELSE With(Min(off, im.len), LAMBDA lo: Put(lo, lo + BLen(d)))

\* b[off:off+len(data)] = data on a bytearray b: the slice bounds are
\* normalised as Python does (negative counts from the end, then cut to b)
PyAssign(b, off, data) ==
    LET Norm(i) == IF i < 0 THEN Max(Len(b) + i, 0) ELSE Min(i, Len(b))
        lo == Norm(off)
        hi == Max(lo, Norm(off + Len(data)))
    IN  SubSeq(b, 1, lo) \o data \o SubSeq(b, hi + 1, Len(b))

\* b[lo:hi] = data on a bytearray b, for any bounds: the slice is replaced by
\* data whatever their lengths are
PyAssignTo(b, lo, hi, data) ==
    LET Norm(i) == IF i < 0 THEN Max(Len(b) + i, 0) ELSE Min(i, Len(b))
    IN  SubSeq(b, 1, Norm(lo)) \o data \o SubSeq(b, Max(Norm(lo), Norm(hi)) + 1, Len(b))

-----------------------------------------------------------------------------
(* File names are sequences of character codes (ASCII).                    *)

\* str.upper() of one character
UpperChar(c) == IF 97 <= c /\ c <= 122 THEN c - 32 ELSE c
Upper(name) == [i \in 1..Len(name) |-> UpperChar(name[i])]
\* index of the last '.', 0 if there is none
LastDot(name) ==
    LET dots == {i \in 1..Len(name) : name[i] = 46}
    IN  IF dots = {} THEN 0 ELSE CHOOSE i \in dots : \A j \in dots : j <= i
\* name.rsplit('.', 1) when '.' is in name, else (name, '')
SplitBase(name) == IF LastDot(name) = 0 THEN name ELSE SubSeq(name, 1, LastDot(name) - 1)
SplitExt(name) ==
    IF LastDot(name) = 0 THEN <<>> ELSE SubSeq(name, LastDot(name) + 1, Len(name))
\* s.ljust(n) with spaces
LJust(str, n) == IF Len(str) >= n THEN str ELSE str \o [i \in 1..(n - Len(str)) |-> 32]
\* str(n) for n >= 0
RECURSIVE DecStr(_)
DecStr(n) == IF n < 10 THEN <<48 + n>> ELSE DecStr(n \div 10) \o <<48 + (n % 10)>>

\* lfn_checksum
lfn_checksum(name83) ==
    FoldRange(LAMBDA acc, i: ((acc % 2) * 128 + (acc \div 2) + name83[i]) % 256,
              0, 1, Len(name83))

\* needs_lfn
needs_lfn(filename) ==
    \/ Len(filename) > 12 \/ Len(filename) = 0
    \/ (filename[1] = 46 /\ filename # <<46>> /\ filename # <<46, 46>>)
    \/ Cardinality({i \in 1..Len(filename) : filename[i] = 46}) > 1
    \/ Len(SplitBase(filename)) > 8 \/ Len(SplitExt(filename)) > 3
    \/ \E i \in 1..Len(filename) : filename[i] \in {32, 43, 44, 59, 61, 91, 93}
    \/ filename # Upper(filename)

\* generate_short_name: the (base, ext) key the collision counter is kept under
ShortKey(filename) ==
    LET name == Upper(filename)
        base == SelectSeq(SplitBase(name),
                          LAMBDA c: c \notin {32, 46, 43, 44, 59, 61, 91, 93})
        ext == SelectSeq(SplitExt(name), LAMBDA c: c \notin {32, 46})
    IN  <<SubSeq(base, 1, Min(6, Len(base))), SubSeq(ext, 1, Min(3, Len(ext)))>>
\* generate_short_name: the 11 bytes returned when the counter has just
\* been raised to `counter`
generate_short_name(filename, counter) ==
    LET key == ShortKey(filename)
        tail == <<126>> \o DecStr(counter)
        max_base == 8 - Len(tail)
        short_base == SubSeq(key[1], 1, Max(0, Min(max_base, Len(key[1])))) \o tail
    IN  LJust(short_base, 8) \o LJust(key[2], 3)

\* make_lfn_entries: the 32-byte LFN entries in disk order (last part first)
make_lfn_entries(filename, name83) ==
    LET chk == lfn_checksum(name83)
        n == Len(filename)
        num_entries == (n + 12) \div 13
        Char(idx) == IF idx < n THEN PackLE(filename[idx + 1], 2)
                     ELSE IF idx = n THEN <<0, 0>> ELSE <<255, 255>>
        Chars(start, from, to) ==
            FoldRange(LAMBDA acc, j: acc \o Char(start + j), <<>>, from, to)
        Entry(seq) ==
            LET start == (seq - 1) * 13
            IN  <<IF seq = num_entries THEN seq + 64 ELSE seq>>
                \o Chars(start, 0, 4) \o <<15, 0, chk>>
                \o Chars(start, 5, 10) \o <<0, 0>> \o Chars(start, 11, 12)
    IN  [k \in 1..num_entries |-> Entry(num_entries + 1 - k)]

-----------------------------------------------------------------------------
(* A formatter call works on a world w = [f, im, err, ret]: the formatter  *)
(* object, the image buffer it shares, the exception raised ("" if none)   *)
(* and the value returned.  A call on a world that already raised does     *)
(* nothing: the exception propagates to the top and aborts the run.        *)

World(f, im) == [f |-> f, im |-> im, err |-> "", ret |-> 0]
NoFmt == [comp |-> "none"]

-----------------------------------------------------------------------------
(* ExFatFormatter *)

EXFAT_FAT_OFFSET == 32
EXFAT_EOC == <<255, 255, 255, 255>>
ENTRY_BITMAP == 129
ENTRY_UPCASE == 130
ENTRY_LABEL == 131
ENTRY_FILE == 133
ENTRY_STREAM == 192
ENTRY_FILENAME == 193
ATTR_DIRECTORY == 16
ATTR_ARCHIVE == 32
FLAG_CONTIGUOUS == 2

\* ExFatFormatter.__init__: bytearray() of a negative size and pack_into past
\* the end of the FAT cache raise.
ExFatNew(im, fs_start_sector, fs_sector_count, sectors_per_cluster) ==
    LET spc == sectors_per_cluster
        est_clusters == (fs_sector_count - EXFAT_FAT_OFFSET) \div spc
        fat_length0 == CeilDiv((est_clusters + 2) * 4, SECTOR_SIZE)
        cluster_heap_offset0 == EXFAT_FAT_OFFSET + fat_length0
        cluster_count == (fs_sector_count - cluster_heap_offset0) \div spc
        fat_length == CeilDiv((cluster_count + 2) * 4, SECTOR_SIZE)
    IN  IF cluster_count < 0
        THEN [World(NoFmt, im) EXCEPT
                !.err = IF cluster_count < -2 THEN "ValueError" ELSE "struct.error"]
        ELSE World([comp |-> "exfat",
                    fs_start |-> fs_start_sector,
                    fs_sectors |-> fs_sector_count,
                    bps_shift |-> 9,
                    spc_shift |-> 3,
                    spc |-> spc,
                    cluster_size |-> spc * SECTOR_SIZE,
                    num_fats |-> 1,
                    fat_offset |-> EXFAT_FAT_OFFSET,
                    fat_length |-> fat_length,
                    cluster_heap_offset |-> EXFAT_FAT_OFFSET + fat_length,
                    cluster_count |-> cluster_count,
                    next_cluster |-> 2,
                    bitmap_cluster |-> 0,
                    root_cluster |-> 0,
                    fat_cache |-> Splice(Splice(Zeros((cluster_count + 2) * 4),
                                                0, <<248, 255, 255, 255>>),
                                         4, EXFAT_EOC),
                    bitmap |-> Zeros((cluster_count + 7) \div 8),
                    flushes |-> 0,
                    owned |-> <<>>],
                   [im EXCEPT !.who = "exfat"])

\* ExFatFormatter._write_sector
ExfWriteSector(w, relative_sector, d) ==
    [w EXCEPT !.im = SliceAssign(w.im, (w.f.fs_start + relative_sector) * SECTOR_SIZE, d)]
\* ExFatFormatter._read_sector
ExfReadSector(w, relative_sector) ==
    ReadBytes(w.im, (w.f.fs_start + relative_sector) * SECTOR_SIZE, SECTOR_SIZE)
\* ExFatFormatter._cluster_to_sector
ExfClusterToSector(f, cluster) == f.cluster_heap_offset + (cluster - 2) * f.spc

\* ExFatFormatter._write_cluster
ExfWriteCluster(w, cluster, d) ==
    LET sector == ExfClusterToSector(w.f, cluster)
    IN  FoldW(LAMBDA w1, s:
                ExfWriteSector(w1, sector + s,
                    IF s * SECTOR_SIZE >= BLen(d) THEN Lit(Zeros(SECTOR_SIZE))
                    ELSE BPad(BSlice(d, s * SECTOR_SIZE, SECTOR_SIZE), SECTOR_SIZE)),
              w, 0, w.f.spc - 1)

\* a faulty bitmap update, which sets the bit of the cluster before c:
\* C10_BitmapAndFlush tells it from the code's
ExfMarkBitmap_Mut(bitmap, c) ==
    LET idx == IF c > 2 THEN c - 3 ELSE 1
        byte == bitmap[idx \div 8 + 1]
        bit == 2 ^ (idx % 8)
    IN  [bitmap EXCEPT ![idx \div 8 + 1] =
            IF (byte \div bit) % 2 = 1 THEN byte ELSE byte + bit]
\* the bitmap with the bit of cluster c set: bitmap[idx // 8] |= 1 << (idx % 8)
ExfMarkBitmap(bitmap, c) ==
    LET idx == c - 2
        byte == bitmap[idx \div 8 + 1]
        bit == 2 ^ (idx % 8)
    IN  [bitmap EXCEPT ![idx \div 8 + 1] =
            IF (byte \div bit) % 2 = 1 THEN byte ELSE byte + bit]

\* a faulty allocator, which hands out next_cluster without advancing it:
\* C4_ClustersDisjoint tells it from the code's
ExfAllocCluster_Mut(w, kind, first) ==
    IF w.err # "" THEN w
    ELSE LET c == w.f.next_cluster
         IN  IF c - 2 >= w.f.cluster_count
             THEN [w EXCEPT !.err = "exFAT: out of clusters"]
             ELSE [w EXCEPT
                     !.f.bitmap = ExfMarkBitmap(w.f.bitmap, c),
                     !.f.fat_cache = Splice(w.f.fat_cache, c * 4, EXFAT_EOC),
                     !.f.owned = Append(@, [kind |-> kind,
                                            first |-> IF first = 0 THEN c ELSE first,
                                            clusters |-> {c}]),
                     !.ret = c]
\* ExFatFormatter._alloc_cluster.  Ghost: the cluster is recorded as owned by
\* the object (kind, first), first = 0 standing for the new cluster itself.
ExfAllocCluster(w, kind, first) ==
    IF w.err # "" THEN w
    ELSE LET c == w.f.next_cluster
         IN  IF c - 2 >= w.f.cluster_count
             THEN [w EXCEPT !.err = "exFAT: out of clusters"]
             ELSE [w EXCEPT
                     !.f.next_cluster = c + 1,
                     !.f.bitmap = ExfMarkBitmap(w.f.bitmap, c),
                     !.f.fat_cache = Splice(w.f.fat_cache, c * 4, EXFAT_EOC),
                     !.f.owned = Append(@, [kind |-> kind,
                                            first |-> IF first = 0 THEN c ELSE first,
                                            clusters |-> {c}]),
                     !.ret = c]

\* a faulty contiguous allocator, which ends the run in the FAT as
\* _alloc_cluster does: C23_ChainsAndFlags tells it from the code's
ExfAllocContiguous_Mut(w, count) ==
    LET first == w.f.next_cluster
        Take(w1, i) ==
            With(w1.f.next_cluster, LAMBDA c:
                IF c - 2 >= w1.f.cluster_count
                THEN [w1 EXCEPT !.err = "exFAT: out of clusters"]
                ELSE [w1 EXCEPT
                        !.f.next_cluster = c + 1,
                        !.f.bitmap = ExfMarkBitmap(w1.f.bitmap, c),
                        !.f.fat_cache = Splice(w1.f.fat_cache, c * 4, EXFAT_EOC),
                        !.f.owned = IF i = 0
                                    THEN Append(@, [kind |-> "file", first |-> first,
                                                    clusters |-> {c}])
                                    ELSE [@ EXCEPT ![Len(@)].clusters = @ \cup {c}],
                        !.ret = first])
    IN  IF w.err # "" THEN w
        ELSE IF count = 0 THEN [w EXCEPT !.ret = 0]
        ELSE FoldW(Take, w, 0, count - 1)
\* ExFatFormatter._alloc_clusters_contiguous
ExfAllocContiguous(w, count) ==
    LET first == w.f.next_cluster
        Take(w1, i) ==
            With(w1.f.next_cluster, LAMBDA c:
                IF c - 2 >= w1.f.cluster_count
                THEN [w1 EXCEPT !.err = "exFAT: out of clusters"]
                ELSE [w1 EXCEPT
                        !.f.next_cluster = c + 1,
                        !.f.bitmap = ExfMarkBitmap(w1.f.bitmap, c),
                        !.f.owned = IF i = 0
                                    THEN Append(@, [kind |-> "file", first |-> first,
                                                    clusters |-> {c}])
                                    ELSE [@ EXCEPT ![Len(@)].clusters = @ \cup {c}],
                        !.ret = first])
    IN  IF w.err # "" THEN w
        ELSE IF count = 0 THEN [w EXCEPT !.ret = 0]
        ELSE FoldW(Take, w, 0, count - 1)

\* ExFatFormatter._write_to_clusters_contiguous
ExfWriteContiguous(w, first_cluster, d) ==
    FoldW(LAMBDA w1, k:
            ExfWriteCluster(w1, first_cluster + k,
                            BSlice(d, k * w.f.cluster_size, w.f.cluster_size)),
          w, 0, CeilDiv(BLen(d), w.f.cluster_size) - 1)

\* The 32-bit right-rotate-and-add checksum of _boot_checksum (skip = the byte
\* offsets left out) and of the up-case table (skip = {}); the 32-bit value
\* is kept as its two 16-bit halves <<hi, lo>>.
RotAdd32(data, skip) ==
    FoldRange(LAMBDA c, i:
                IF i \in skip THEN c
                ELSE LET rlo == (c[2] \div 2) + (c[1] % 2) * 32768
                         rhi == (c[1] \div 2) + (c[2] % 2) * 32768
                         sum == rlo + data[i + 1]
                     IN  <<(rhi + (sum \div 65536)) % 65536, sum % 65536>>,
              <<0, 0>>, 0, Len(data) - 1)
\* struct.pack('<I', checksum) of such a value
Pack32(c) == PackLE(c[2], 2) \o PackLE(c[1], 2)

\* a faulty boot checksum, which leaves no byte out:
\* C12_BootRegionChecksum tells it from the code's
ExfBootChecksum_Mut(data) == RotAdd32(data, {})
\* ExFatFormatter._boot_checksum
ExfBootChecksum(data) == RotAdd32(data, {106, 107, 112})

\* ExFatFormatter.write_boot_sector
ExfWriteBootSector(w) ==
    LET f == w.f
        vbr == SetFields(Zeros(SECTOR_SIZE), <<
                  <<0, <<235, 118, 144>> >>,
                  <<3, <<69, 88, 70, 65, 84, 32, 32, 32>> >>,
                  <<64, PackLE(f.fs_start, 8)>>,
                  <<72, PackLE(f.fs_sectors, 8)>>,
                  <<80, PackLE(f.fat_offset, 4)>>,
                  <<84, PackLE(f.fat_length, 4)>>,
                  <<88, PackLE(f.cluster_heap_offset, 4)>>,
                  <<92, PackLE(f.cluster_count, 4)>>,
                  <<96, PackLE(4, 4)>>,
                  <<100, <<79, 89, 78, 65>> >>,
                  <<104, PackLE(256, 2)>>,
                  <<106, PackLE(0, 2)>>,
                  <<108, <<f.bps_shift, f.spc_shift, f.num_fats, 128, 255>> >>,
                  <<510, <<85, 170>> >> >>)
        ext == Splice(Zeros(SECTOR_SIZE), 510, <<85, 170>>)
        oem == Zeros(SECTOR_SIZE)
        reserved == Zeros(SECTOR_SIZE)
        boot_region == vbr \o ext \o ext \o ext \o ext \o ext \o ext \o ext \o ext
                           \o oem \o reserved
        checksum == Pack32(ExfBootChecksum(boot_region))
        cs_sector == FoldRange(LAMBDA acc, i: acc \o checksum, <<>>, 1, SECTOR_SIZE \div 4)
        Region(w0, base) ==
            LET w1 == ExfWriteSector(w0, base, Lit(vbr))
                w2 == FoldW(LAMBDA wa, i: ExfWriteSector(wa, base + 1 + i, Lit(ext)),
                            w1, 0, 7)
                w3 == ExfWriteSector(w2, base + 9, Lit(oem))
                w4 == ExfWriteSector(w3, base + 10, Lit(reserved))
            IN  ExfWriteSector(w4, base + 11, Lit(cs_sector))
    IN  IF w.err # "" THEN w ELSE Region(Region(w, 0), 12)

\* the minimal up-case table of init_fs: 128 UTF-16LE entries, a-z folded
ExfUpcaseData ==
    FoldRange(LAMBDA acc, i:
                acc \o PackLE(IF i >= 97 /\ i <= 122 THEN i - 32 ELSE i, 2),
              <<>>, 0, 127)

\* ExFatFormatter.init_fs
ExfInitFs(w) ==
    LET wa == ExfAllocCluster(w, "bitmap", 0)
        wb == ExfAllocCluster(wa, "upcase", 0)
        wc == ExfAllocCluster(wb, "root", 0)
        bitmap_cluster == wa.ret
        upcase_cluster == wb.ret
        root_cluster == wc.ret
        f == w.f
        upcase_data == ExfUpcaseData
        upcase_padded == upcase_data \o Zeros(f.cluster_size - Len(upcase_data))
        w1 == ExfWriteCluster([wc EXCEPT !.f.bitmap_cluster = bitmap_cluster,
                                         !.f.root_cluster = root_cluster],
                              upcase_cluster, Lit(upcase_padded))
        bitmap_size == (f.cluster_count + 7) \div 8
        root_data == SetFields(Zeros(f.cluster_size), <<
                        <<0, <<ENTRY_BITMAP, 0>> >>,
                        <<20, PackLE(bitmap_cluster, 4)>>,
                        <<24, PackLE(bitmap_size, 8)>>,
                        <<32, <<ENTRY_UPCASE>> >>,
                        <<36, Pack32(RotAdd32(upcase_data, {}))>>,
                        <<52, PackLE(upcase_cluster, 4)>>,
                        <<56, PackLE(Len(upcase_data), 8)>>,
                        <<64, <<ENTRY_LABEL, 5>> >>,
                        <<66, <<97, 0, 110, 0, 121, 0, 79, 0, 83, 0>> >> >>)
        w2 == ExfWriteCluster(w1, root_cluster, Lit(root_data))
        vbr_offset == f.fs_start * SECTOR_SIZE
        backup_offset == (f.fs_start + 12) * SECTOR_SIZE
        im1 == SliceAssign(w2.im, vbr_offset + 96, Lit(PackLE(root_cluster, 4)))
        im2 == SliceAssign(im1, backup_offset + 96, Lit(PackLE(root_cluster, 4)))
    IN  IF wc.err # "" THEN wc ELSE [w2 EXCEPT !.im = im2, !.ret = 0]

\* ExFatFormatter._entry_set_checksum
ExfEntrySetChecksum(data) ==
    FoldRange(LAMBDA c, i:
                IF i = 2 \/ i = 3 THEN c
                ELSE ((c % 2) * 32768 + (c \div 2) + data[i + 1]) % 65536,
              0, 0, Len(data) - 1)

\* a faulty name hash, taken over the name as given (no case folding):
\* C11_EntrySetChecksums tells it from the code's
ExfNameHash_Mut(utf16_chars) ==
    FoldRange(LAMBDA h, k:
                With(((h % 2) * 32768 + (h \div 2) + (utf16_chars[k] % 256)) % 65536,
                     LAMBDA h1: ((h1 % 2) * 32768 + (h1 \div 2)
                                    + (utf16_chars[k] \div 256)) % 65536),
              0, 1, Len(utf16_chars))
\* ExFatFormatter._name_hash
ExfNameHash(utf16_chars) ==
    FoldRange(LAMBDA h, k:
                LET ch == utf16_chars[k]
                    uc == IF 97 <= ch /\ ch <= 122 THEN ch - 32 ELSE ch
                    h1 == ((h % 2) * 32768 + (h \div 2) + (uc % 256)) % 65536
                IN  ((h1 % 2) * 32768 + (h1 \div 2) + (uc \div 256)) % 65536,
              0, 1, Len(utf16_chars))

\* ExFatFormatter._build_entry_set (uid = gid = 0, mode = 0xFFF); the result
\* is <<>> when a byte store raises (a name of more than 255 characters)
ExfBuildEntrySet(name, attributes, first_cluster, data_length, contiguous) ==
    LET name_len == Len(name)
        fn_entries == (name_len + 14) \div 15
        secondary == 1 + fn_entries
        total == 1 + secondary
        s == 32
        flags == IF contiguous THEN 1 + FLAG_CONTIGUOUS ELSE 1
        head == SetFields(Zeros(total * 32), <<
                   <<0, <<ENTRY_FILE, secondary>> >>,
                   <<4, PackLE(attributes, 2)>>,
                   <<6, PackLE(0, 2)>>,
                   <<8, PackLE(0, 2)>>,
                   <<10, PackLE(4095, 2)>>,
                   <<s, <<ENTRY_STREAM, flags>> >>,
                   <<s + 3, <<name_len>> >>,
                   <<s + 4, PackLE(ExfNameHash(name), 2)>>,
                   <<s + 8, PackLE(data_length, 8)>>,
                   <<s + 20, PackLE(first_cluster, 4)>>,
                   <<s + 24, PackLE(data_length, 8)>> >>)
        FileName(fi) ==
            <<ENTRY_FILENAME, 0>> \o
            FoldRange(LAMBDA acc, j:
                        LET ci == fi * 15 + j
                        IN  acc \o PackLE(IF ci < name_len THEN name[ci + 1] ELSE 0, 2),
                      <<>>, 0, 14)
        entry_set == FoldRange(LAMBDA acc, fi: Splice(acc, (2 + fi) * 32, FileName(fi)),
                               head, 0, fn_entries - 1)
    IN  IF name_len > 255 THEN <<>>
        ELSE Splice(entry_set, 2, PackLE(ExfEntrySetChecksum(entry_set), 2))

\* a faulty free-space scan, which takes slot 0 of the first cluster whatever
\* it holds: C24_EntryPlacement tells it from the code's
ExfScanDir_Mut(dir_data, entry_count) == IF Len(dir_data) \div 32 >= entry_count THEN 0 ELSE -1
\* the free-space scan of _add_entry_to_dir over one cluster's bytes: the
\* slot index the entry set is written at, or -1 when the loop is left
\* without a place (break, or the cluster is exhausted)
ExfScanDir(dir_data, entry_count) ==
    LET n == Len(dir_data) \div 32
        Step(st, idx) ==
            IF st.res # -2 THEN st
            ELSE LET etype == dir_data[idx * 32 + 1]
                 IN  IF etype = 0 \/ (etype < 128 /\ etype # 0)
                     THEN LET run_start == IF st.run_len = 0 THEN idx ELSE st.run_start
                              run_len == st.run_len + 1
                          IN  IF run_len >= entry_count
                              THEN [st EXCEPT !.res = run_start]
                              ELSE IF etype = 0
                              THEN [st EXCEPT !.res = IF n - run_start >= entry_count
                                                      THEN run_start ELSE -1]
                              ELSE [run_start |-> run_start, run_len |-> run_len,
                                    res |-> -2]
                     ELSE [run_start |-> -1, run_len |-> 0, res |-> -2]
        end == FoldRange(Step, [run_start |-> -1, run_len |-> 0, res |-> -2], 0, n - 1)
    IN  IF end.res = -2 THEN -1 ELSE end.res

\* ExFatFormatter._add_entry_to_dir.  The while loop over the directory's
\* chain: w.ret holds the cluster being looked at, -1 once the call returned.
ExfAddEntryToDir(w, dir_cluster, entry_set) ==
    LET entry_count == Len(entry_set) \div 32
        Visit(w1, k) ==
            IF w1.ret = -1 THEN w1
            ELSE
            LET f == w1.f
                cluster == w1.ret
                sector == ExfClusterToSector(f, cluster)
                dir_data == FoldRange(LAMBDA acc, s: acc \o ExfReadSector(w1, sector + s),
                                      <<>>, 0, f.spc - 1)
                at == ExfScanDir(dir_data, entry_count)
                new_dir == Splice(dir_data, at * 32, entry_set)
                fat_val == SubSeq(f.fat_cache, cluster * 4 + 1, cluster * 4 + 4)
                wn == ExfAllocCluster(w1, "dir", dir_cluster)
                new_cluster == wn.ret
            IN  IF at >= 0
                THEN [FoldW(LAMBDA wa, s:
                              ExfWriteSector(wa, sector + s,
                                  Lit(SubSeq(new_dir, s * SECTOR_SIZE + 1,
                                             Min((s + 1) * SECTOR_SIZE, Len(new_dir))))),
                            w1, 0, f.spc - 1) EXCEPT !.ret = -1]
                ELSE IF (fat_val[4] = 255 /\ fat_val[3] = 255 /\ fat_val[2] = 255
                            /\ fat_val[1] >= 248)
                        \/ fat_val = <<0, 0, 0, 0>>
                THEN IF wn.err # "" THEN wn
                     ELSE [ExfWriteCluster(
                              [wn EXCEPT !.f.fat_cache =
                                  Splice(@, cluster * 4, PackLE(new_cluster, 4))],
                              new_cluster,
                              Lit(Splice(Zeros(f.cluster_size), 0, entry_set)))
                           EXCEPT !.ret = -1]
                ELSE [w1 EXCEPT !.ret = UnpackLE(fat_val, 0, 4)]
        end == FoldW(Visit, [w EXCEPT !.ret = dir_cluster], 0, w.f.cluster_count)
    IN  IF w.err # "" THEN w
        ELSE IF entry_set = <<>> THEN [w EXCEPT !.err = "ValueError"]
        ELSE end

\* ExFatFormatter.create_directory (parent_cluster is never None here)
ExfCreateDirectory(w, parent_cluster, dirname) ==
    LET wa == ExfAllocCluster(w, "dir", 0)
        dir_cluster == wa.ret
        w1 == ExfWriteCluster(wa, dir_cluster, Lit(Zeros(w.f.cluster_size)))
        entry_set == ExfBuildEntrySet(dirname, ATTR_DIRECTORY, dir_cluster, 0, FALSE)
        w2 == ExfAddEntryToDir(w1, parent_cluster, entry_set)
    IN  IF wa.err # "" THEN wa
        ELSE IF w2.err # "" THEN w2 ELSE [w2 EXCEPT !.ret = dir_cluster]

\* ExFatFormatter.add_file
ExfAddFile(w, parent_cluster, filename, data) ==
    LET num_clusters == CeilDiv(BLen(data), w.f.cluster_size)
        wa == ExfAllocContiguous(w, num_clusters)
        first_cluster == wa.ret
        w1 == ExfWriteContiguous(wa, first_cluster, data)
    IN  IF w.err # "" THEN w
        ELSE IF BLen(data) = 0
        THEN ExfAddEntryToDir(w, parent_cluster,
                              ExfBuildEntrySet(filename, ATTR_ARCHIVE, 0, 0, TRUE))
        ELSE IF wa.err # "" THEN wa
        ELSE ExfAddEntryToDir(w1, parent_cluster,
                 ExfBuildEntrySet(filename, ATTR_ARCHIVE, first_cluster,
                                  BLen(data), TRUE))

\* ExFatFormatter.flush_fat_and_bitmap
ExfFlushFatAndBitmap(w) ==
    LET f == w.f
        w1 == FoldW(LAMBDA wa, s:
                      ExfWriteSector(wa, f.fat_offset + s,
                          BPad(BSlice(Lit(f.fat_cache), s * SECTOR_SIZE, SECTOR_SIZE),
                               SECTOR_SIZE)),
                    w, 0, f.fat_length - 1)
        num_clusters == CeilDiv(Len(f.bitmap), f.cluster_size)
        w2 == FoldW(LAMBDA wa, k:
                      ExfWriteCluster(wa, f.bitmap_cluster + k,
                          BPad(BSlice(Lit(f.bitmap), k * f.cluster_size, f.cluster_size),
                               f.cluster_size)),
                    w1, 0, num_clusters - 1)
    IN  IF w.err # "" THEN w ELSE [w2 EXCEPT !.f.flushes = @ + 1]

-----------------------------------------------------------------------------
(* Fat16Formatter *)

\* Fat16Formatter.__init__ (also resets the short-name counters).  warnings
\* is the list of names printed with "WARNING: No room in subdir"; owned and
\* files are ghost records of the allocations and of the files added.
Fat16New(im, fs_start_sector, fs_sector_count, sectors_per_cluster) ==
    LET reserved_sectors == 1
        num_fats == 2
        root_entry_count == 512
        root_dir_sectors == (root_entry_count * 32 + SECTOR_SIZE - 1) \div SECTOR_SIZE
        total_clusters0 ==
            (fs_sector_count - reserved_sectors - root_dir_sectors) \div sectors_per_cluster
        fat_size == (total_clusters0 * 2 + SECTOR_SIZE - 1) \div SECTOR_SIZE
        data_sectors == fs_sector_count - reserved_sectors - (num_fats * fat_size)
                            - root_dir_sectors
        first_root_dir_sector == reserved_sectors + num_fats * fat_size
    IN  World([comp |-> "fat16",
               fs_start |-> fs_start_sector,
               fs_sectors |-> fs_sector_count,
               sectors_per_cluster |-> sectors_per_cluster,
               reserved_sectors |-> reserved_sectors,
               num_fats |-> num_fats,
               root_entry_count |-> root_entry_count,
               root_dir_sectors |-> root_dir_sectors,
               fat_size |-> fat_size,
               total_clusters |-> data_sectors \div sectors_per_cluster,
               first_fat_sector |-> reserved_sectors,
               first_root_dir_sector |-> first_root_dir_sector,
               first_data_sector |-> first_root_dir_sector + root_dir_sectors,
               next_cluster |-> 2,
               next_root_entry |-> 0,
               counters |-> <<>>,
               warnings |-> <<>>,
               owned |-> <<>>,
               files |-> <<>>],
              [im EXCEPT !.who = "fat16"])

\* Fat16Formatter._write_sector
FatWriteSector(w, relative_sector, d) ==
    IF w.err # "" THEN w
    ELSE [w EXCEPT !.im = SliceAssign(w.im, (w.f.fs_start + relative_sector) * SECTOR_SIZE, d)]
\* Fat16Formatter._read_sector
FatReadSector(w, relative_sector) ==
    ReadBytes(w.im, (w.f.fs_start + relative_sector) * SECTOR_SIZE, SECTOR_SIZE)

\* Fat16Formatter.write_boot_sector
FatWriteBootSector(w) ==
    LET f == w.f
        bpb == SetFields(Zeros(SECTOR_SIZE), <<
                  <<0, <<235, 60, 144>> >>,
                  <<3, <<65, 78, 89, 79, 83, 32, 32, 32>> >>,
                  <<11, PackLE(SECTOR_SIZE, 2)>>,
                  <<13, <<f.sectors_per_cluster>> >>,
                  <<14, PackLE(f.reserved_sectors, 2)>>,
                  <<16, <<f.num_fats>> >>,
                  <<17, PackLE(f.root_entry_count, 2)>>,
                  <<19, PackLE(IF f.fs_sectors < 65536 THEN f.fs_sectors ELSE 0, 2)>>,
                  <<21, <<248>> >>,
                  <<22, PackLE(f.fat_size, 2)>>,
                  <<24, PackLE(63, 2)>>,
                  <<26, PackLE(16, 2)>>,
                  <<28, PackLE(f.fs_start, 4)>>,
                  <<32, IF f.fs_sectors >= 65536 THEN PackLE(f.fs_sectors, 4)
                        ELSE <<0, 0, 0, 0>> >>,
                  <<36, <<128>> >>,
                  <<38, <<41, 120, 86, 52, 18>> >>,
                  <<43, <<65, 78, 89, 79, 83, 32, 32, 32, 32, 32, 32>> >>,
                  <<54, <<70, 65, 84, 49, 54, 32, 32, 32>> >>,
                  <<510, <<85, 170>> >> >>)
    IN  IF f.fs_sectors < 0 \/ f.fat_size < 0 \/ f.fat_size > 65535
        THEN [w EXCEPT !.err = "struct.error"]
        ELSE FatWriteSector(w, 0, Lit(bpb))

\* Fat16Formatter.init_fat
FatInitFat(w) ==
    LET fat_sector == Splice(Zeros(SECTOR_SIZE), 0, <<248, 255, 255, 255>>)
    IN  FoldW(LAMBDA w1, fat_idx:
                FatWriteSector(w1, w.f.first_fat_sector + fat_idx * w.f.fat_size,
                               Lit(fat_sector)),
              w, 0, w.f.num_fats - 1)

\* Fat16Formatter._set_fat_entry
FatSetFatEntry(w, cluster, value) ==
    LET fat_offset == cluster * 2
        sector_in_fat == fat_offset \div SECTOR_SIZE
        offset_in_sector == fat_offset % SECTOR_SIZE
        Store(w1, abs_sector, sector_data) ==
            IF Len(sector_data) < offset_in_sector + 2 \/ value > 65535
            THEN [w1 EXCEPT !.err = "struct.error"]
            ELSE FatWriteSector(w1, abs_sector,
                     Lit(Splice(sector_data, offset_in_sector, PackLE(value, 2))))
    IN  FoldW(LAMBDA w1, fat_idx:
                With(w.f.first_fat_sector + fat_idx * w.f.fat_size + sector_in_fat,
                     LAMBDA abs_sector:
                        Store(w1, abs_sector, FatReadSector(w1, abs_sector))),
              w, 0, w.f.num_fats - 1)

\* Fat16Formatter._cluster_to_sector
FatClusterToSector(f, cluster) ==
    f.first_data_sector + (cluster - 2) * f.sectors_per_cluster

\* Fat16Formatter._allocate_clusters.  Ghost: the clusters are recorded as
\* owned by the object of the given kind.
FatAllocateClusters(w, num_clusters, kind) ==
    LET first == w.f.next_cluster
    IN  IF w.err # "" THEN w
        ELSE IF num_clusters = 0 THEN [w EXCEPT !.ret = 0]
        ELSE Bind(FoldW(LAMBDA w1, i:
                          LET current == w1.f.next_cluster
                          IN  FatSetFatEntry([w1 EXCEPT !.f.next_cluster = current + 1],
                                             current,
                                             IF i < num_clusters - 1 THEN current + 1
                                             ELSE 65535),
                        w, 0, num_clusters - 1),
                  LAMBDA w2:
                    [w2 EXCEPT
                       !.f.owned = Append(@, [kind |-> kind, first |-> first,
                                              clusters |-> first..(first + num_clusters - 1)]),
                       !.ret = first])

\* Fat16Formatter._write_to_clusters.  w.ret holds the cluster being written,
\* -1 once the loop was left through its break.
FatWriteToClusters(w, first_cluster, data) ==
    LET f == w.f
        cluster_size == f.sectors_per_cluster * SECTOR_SIZE
        \* the FAT entry of the cluster just written: the next cluster
        Follow(w2, fat_sector_data, offset_in_sector) ==
            IF Len(fat_sector_data) < offset_in_sector + 2
            THEN [w2 EXCEPT !.err = "struct.error"]
            ELSE With(UnpackLE(fat_sector_data, offset_in_sector, 2),
                      LAMBDA next: [w2 EXCEPT !.ret = IF next >= 65528 THEN -1 ELSE next])
        Visit(w1, k) ==
            IF w1.ret = -1 THEN w1
            ELSE
            LET cluster == w1.ret
                offset == k * cluster_size
                chunk == BSlice(data, offset, cluster_size)
                sector == FatClusterToSector(f, cluster)
                fat_offset == cluster * 2
            IN  Bind(FoldW(LAMBDA wa, s:
                             FatWriteSector(wa, sector + s,
                                 BPad(BSlice(chunk, s * SECTOR_SIZE, SECTOR_SIZE),
                                      SECTOR_SIZE)),
                           w1, 0, CeilDiv(BLen(chunk), SECTOR_SIZE) - 1),
                     LAMBDA w2:
                        IF offset + cluster_size >= BLen(data) THEN w2
                        ELSE Follow(w2,
                                 FatReadSector(w2, f.first_fat_sector
                                                     + (fat_offset \div SECTOR_SIZE)),
                                 fat_offset % SECTOR_SIZE))
    IN  FoldW(Visit, [w EXCEPT !.ret = first_cluster], 0,
              CeilDiv(BLen(data), cluster_size) - 1)

\* Fat16Formatter._make_83_name
FatMake83Name(filename) ==
    LET name == Upper(filename)
        base == SplitBase(name)
        ext == SplitExt(name)
    IN  LJust(SubSeq(base, 1, Min(8, Len(base))), 8)
            \o LJust(SubSeq(ext, 1, Min(3, Len(ext))), 3)

\* Fat16Formatter._write_root_entry_at
FatWriteRootEntryAt(w, index, entry_data) ==
    LET entry_offset == index * 32
        sector == w.f.first_root_dir_sector + entry_offset \div SECTOR_SIZE
        sector_data == FatReadSector(w, sector)
    IN  FatWriteSector(w, sector,
                       Lit(PyAssign(sector_data, entry_offset % SECTOR_SIZE, entry_data)))

\* the 8.3 name chosen by add_root_dir_entry / add_subdir_entry, left in
\* w.ret: generate_short_name (which counts the key up) or _make_83_name
FatName83(w, filename) ==
    LET Count(key) ==
            With((IF key \in DOMAIN w.f.counters THEN w.f.counters[key] ELSE 0) + 1,
                 LAMBDA counter:
                    [w EXCEPT !.f.counters = (key :> counter) @@ @,
                              !.ret = generate_short_name(filename, counter)])
    IN  IF needs_lfn(filename) THEN Count(ShortKey(filename))
        ELSE [w EXCEPT !.ret = FatMake83Name(filename)]

\* the 32-byte 8.3 entry built by add_root_dir_entry and add_subdir_entry
FatEntry83(name83, first_cluster, file_size, is_directory) ==
    SetFields(Zeros(32), <<
        <<0, name83>>,
        <<11, <<IF is_directory THEN 16 ELSE 32>> >>,
        <<26, PackLE(first_cluster % 65536, 2)>>,
        <<20, PackLE(0, 2)>>,
        <<28, PackLE(IF is_directory THEN 0 ELSE file_size, 4)>> >>)

\* Fat16Formatter.add_root_dir_entry
FatAddRootDirEntry(w, filename, first_cluster, file_size, is_directory) ==
    LET Write(wn, lfn_entries) ==
            Bind(FoldW(LAMBDA wa, k:
                         [FatWriteRootEntryAt(wa, wa.f.next_root_entry, lfn_entries[k])
                            EXCEPT !.f.next_root_entry = @ + 1],
                       wn, 1, Len(lfn_entries)),
                 LAMBDA w1:
                    [FatWriteRootEntryAt(w1, w1.f.next_root_entry,
                         FatEntry83(wn.ret, first_cluster, file_size, is_directory))
                       EXCEPT !.f.next_root_entry = @ + 1, !.ret = 0])
    IN  Bind(w, LAMBDA w0:
          With(FatName83(w0, filename), LAMBDA wn:
            Write(wn, IF needs_lfn(filename) THEN make_lfn_entries(filename, wn.ret)
                      ELSE <<>>)))

\* the free-slot scan of add_subdir_entry: <<found_start, consecutive>>
\* (byte offset, run length) when the loop is left
FatScanDir(dir_data, cluster_size, total_needed) ==
    LET Step(st, k) ==
            IF st[3] THEN st
            ELSE IF dir_data[k * 32 + 1] = 0 \/ dir_data[k * 32 + 1] = 229
            THEN LET found_start == IF st[2] = 0 THEN k * 32 ELSE st[1]
                 IN  <<found_start, st[2] + 1, st[2] + 1 >= total_needed>>
            ELSE <<-1, 0, FALSE>>
    IN  FoldRange(Step, <<-1, 0, FALSE>>, 0, cluster_size \div 32 - 1)

\* Fat16Formatter.add_subdir_entry
FatAddSubdirEntry(w, parent_cluster, filename, first_cluster, file_size, is_directory) ==
    LET f == w.f
        cluster_size == f.sectors_per_cluster * SECTOR_SIZE
        sector == FatClusterToSector(f, parent_cluster)
        Place(wn, lfn_entries, dir_data, scan) ==
            LET found_start == scan[1]
                with_lfn == FoldRange(LAMBDA acc, k:
                                        Splice(acc, found_start + (k - 1) * 32,
                                               lfn_entries[k]),
                                      dir_data, 1, Len(lfn_entries))
                new_dir == Splice(with_lfn, found_start + Len(lfn_entries) * 32,
                                  FatEntry83(wn.ret, first_cluster, file_size,
                                             is_directory))
            IN  IF Len(dir_data) # cluster_size THEN [wn EXCEPT !.err = "IndexError"]
                ELSE IF found_start < 0 \/ scan[2] < Len(lfn_entries) + 1
                THEN [wn EXCEPT !.f.warnings = Append(@, filename), !.ret = 0]
                ELSE [With(new_dir, LAMBDA nd:
                        FoldW(LAMBDA wa, s:
                                FatWriteSector(wa, sector + s,
                                    Lit(SubSeq(nd, s * SECTOR_SIZE + 1,
                                               (s + 1) * SECTOR_SIZE))),
                              wn, 0, f.sectors_per_cluster - 1)) EXCEPT !.ret = 0]
        Scan(wn, lfn_entries, dir_data) ==
            Place(wn, lfn_entries, dir_data,
                  IF Len(dir_data) # cluster_size THEN <<-1, 0, FALSE>>
                  ELSE FatScanDir(dir_data, cluster_size, Len(lfn_entries) + 1))
        Read(wn, lfn_entries) ==
            Scan(wn, lfn_entries,
                 FoldRange(LAMBDA acc, s:
                             PyAssign(acc, s * SECTOR_SIZE, FatReadSector(wn, sector + s)),
                           Zeros(cluster_size), 0, f.sectors_per_cluster - 1))
    IN  Bind(w, LAMBDA w0:
          With(FatName83(w0, filename), LAMBDA wn:
            Read(wn, IF needs_lfn(filename) THEN make_lfn_entries(filename, wn.ret)
                     ELSE <<>>)))

\* Fat16Formatter.create_directory
FatCreateDirectory(w, parent_cluster_or_root, dirname, is_root_parent) ==
    LET f == w.f
        cluster_size == f.sectors_per_cluster * SECTOR_SIZE
        DirData(dir_cluster) ==
            LET dot == SetFields(Zeros(32), <<
                          <<0, <<46, 32, 32, 32, 32, 32, 32, 32, 32, 32, 32, 16>> >>,
                          <<26, PackLE(dir_cluster, 2)>> >>)
                dotdot == SetFields(Zeros(32), <<
                          <<0, <<46, 46, 32, 32, 32, 32, 32, 32, 32, 32, 32, 16>> >>,
                          <<26, PackLE(IF is_root_parent THEN 0
                                       ELSE parent_cluster_or_root, 2)>> >>)
            IN  SetFields(Zeros(cluster_size), << <<0, dot>>, <<32, dotdot>> >>)
        Fill(wa, dir_cluster, dir_data) ==
            FoldW(LAMBDA wb, s:
                    FatWriteSector(wb, FatClusterToSector(f, dir_cluster) + s,
                        Lit(SubSeq(dir_data, s * SECTOR_SIZE + 1, (s + 1) * SECTOR_SIZE))),
                  wa, 0, f.sectors_per_cluster - 1)
    IN  Bind(FatAllocateClusters(w, 1, "dir"), LAMBDA wa:
          IF wa.ret > 65535 THEN [wa EXCEPT !.err = "struct.error"]
          ELSE Bind(Fill(wa, wa.ret, DirData(wa.ret)), LAMBDA w1:
                 Bind(IF is_root_parent
                      THEN FatAddRootDirEntry(w1, dirname, wa.ret, 0, TRUE)
                      ELSE FatAddSubdirEntry(w1, parent_cluster_or_root, dirname,
                                             wa.ret, 0, TRUE),
                      LAMBDA w2: [w2 EXCEPT !.ret = wa.ret])))

\* Fat16Formatter.add_file.  Ghost: a non-empty file is recorded in files.
FatAddFile(w, parent_cluster_or_root, filename, data, is_root_parent) ==
    LET f == w.f
        cluster_size == f.sectors_per_cluster * SECTOR_SIZE
        num_clusters == (BLen(data) + cluster_size - 1) \div cluster_size
        first_cluster == IF BLen(data) = 0 THEN 0 ELSE w.f.next_cluster
    IN  Bind(w, LAMBDA w0:
          Bind(FatAllocateClusters(w0, num_clusters, "file"), LAMBDA wa:
            Bind(FatWriteToClusters(wa, first_cluster, data), LAMBDA w1:
              Bind(IF is_root_parent
                   THEN FatAddRootDirEntry(w1, filename, first_cluster, BLen(data), FALSE)
                   ELSE FatAddSubdirEntry(w1, parent_cluster_or_root, filename,
                                          first_cluster, BLen(data), FALSE),
                   LAMBDA w2:
                     IF BLen(data) = 0 THEN w2
                     ELSE [w2 EXCEPT !.f.files =
                              Append(@, [name |-> filename, data |-> data,
                                         first |-> first_cluster,
                                         n |-> num_clusters])]))))

\* Fat16Formatter.populate_from_sysroot, up to the call of _populate_dir:
\* the volume label entry
FatWriteVolumeLabel(w) ==
    LET label_entry == SetFields(Zeros(32), <<
                          <<0, <<65, 78, 89, 79, 83, 32, 32, 32, 32, 32, 32, 8>> >> >>)
    IN  IF w.err # "" THEN w
        ELSE [FatWriteRootEntryAt(w, w.f.next_root_entry, label_entry)
                EXCEPT !.f.next_root_entry = @ + 1]

-----------------------------------------------------------------------------
(* zlib.crc32 on byte sequences; a 32-bit value is kept as <<hi, lo>>.     *)

RECURSIVE XorBits(_, _, _)
XorBits(a, b, n) ==
    IF n = 0 THEN 0
    ELSE ((a + b) % 2) + 2 * XorBits(a \div 2, b \div 2, n - 1)
\* a ^ b for bytes, tabulated
Xor8Table ==
    SubSeq([a \in 1..256 |-> SubSeq([b \in 1..256 |-> XorBits(a - 1, b - 1, 8)], 1, 256)],
           1, 256)
Xor8(a, b) == Xor8Table[a + 1][b + 1]
Xor16(a, b) == Xor8(a \div 256, b \div 256) * 256 + Xor8(a % 256, b % 256)
\* the CRC-32 table (reflected polynomial 0xEDB88320)
Crc32Table ==
    LET Shift(c) == <<c[1] \div 2, (c[1] % 2) * 32768 + (c[2] \div 2)>>
        Round(c, k) == IF c[2] % 2 = 1
                       THEN <<Xor16(60856, Shift(c)[1]), Xor16(33568, Shift(c)[2])>>
                       ELSE Shift(c)
    IN  SubSeq([n \in 1..256 |-> FoldRange(Round, <<0, n - 1>>, 1, 8)], 1, 256)
\* zlib.crc32(data) & 0xFFFFFFFF
Crc32(data) ==
    LET Step(c, i) ==
            LET t == Crc32Table[Xor8(c[2] % 256, data[i]) + 1]
            IN  <<Xor16(t[1], c[1] \div 256),
                  Xor16(t[2], (c[1] % 256) * 256 + (c[2] \div 256))>>
        c == FoldRange(Step, <<65535, 65535>>, 1, Len(data))
    IN  <<65535 - c[1], 65535 - c[2]>>

-----------------------------------------------------------------------------
(* Protective MBR and GPT *)

ESP_TYPE_GUID == <<40, 115, 42, 193, 31, 248, 210, 17, 186, 75, 0, 160, 201, 62, 201, 59>>
BASIC_DATA_TYPE_GUID == <<162, 160, 208, 235, 229, 185, 51, 68, 135, 192, 104, 182, 183, 38, 153, 199>>
\* uuid.uuid4(): 16 bytes the run draws; k tells the draws of one run apart
Uuid4(seed, k) == [i \in 1..16 |-> (seed * 37 + k * 101 + i * 13) % 256]

\* write_protective_mbr (total_sectors - 1 is below 2^32 here)
write_protective_mbr(im, total_sectors) ==
    LET mbr == SetFields(Zeros(512), <<
                  <<446, <<0, 0, 2, 0, 238, 255, 255, 255>> >>,
                  <<454, PackLE(1, 4)>>,
                  <<458, PackLE(total_sectors - 1, 4)>>,
                  <<510, <<85, 170>> >> >>)
    IN  IF total_sectors - 1 < 0 THEN [im |-> im, err |-> "struct.error"]
        ELSE [im |-> SliceAssign([im EXCEPT !.who = "mbr"], 0, Lit(mbr)), err |-> ""]

\* the partition entry array built by create_gpt
GptEntries(partitions) ==
    FoldRange(LAMBDA entries, k:
                LET off == (k - 1) * GPT_ENTRY_SIZE
                    part == partitions[k]
                IN  SetFields(entries, <<
                        <<off, part.type_guid>>,
                        <<off + 16, part.unique_guid>>,
                        <<off + 32, PackLE(part.first_lba, 8)>>,
                        <<off + 40, PackLE(part.last_lba, 8)>>,
                        <<off + 48, PackLE(0, 8)>>,
                        <<off + 56, SubSeq(part.name, 1, Min(72, Len(part.name)))>> >>),
              Zeros(GPT_ENTRY_COUNT * GPT_ENTRY_SIZE), 1, Len(partitions))

\* a faulty make_header, whose CRC covers the whole 512-byte sector:
\* C13_GptCrcs tells it from the code's
GptHeader_Mut(my_lba, alt_lba, entries_lba, first_usable_lba, last_usable_lba, disk_guid, entries_crc) ==
    LET hdr == SetFields(Zeros(512), <<
                  <<0, <<69, 70, 73, 32, 80, 65, 82, 84>> >>,
                  <<8, <<0, 0, 1, 0>> >>,
                  <<12, PackLE(GPT_HEADER_SIZE, 4)>>,
                  <<24, PackLE(my_lba, 8)>>,
                  <<32, PackLE(alt_lba, 8)>>,
                  <<40, PackLE(first_usable_lba, 8)>>,
                  <<48, PackLE(last_usable_lba, 8)>>,
                  <<56, disk_guid>>,
                  <<72, PackLE(entries_lba, 8)>>,
                  <<80, PackLE(GPT_ENTRY_COUNT, 4)>>,
                  <<84, PackLE(GPT_ENTRY_SIZE, 4)>>,
                  <<88, Pack32(entries_crc)>> >>)
    IN  Splice(hdr, 16, Pack32(Crc32(hdr)))

\* make_header of create_gpt
GptHeader(my_lba, alt_lba, entries_lba, first_usable_lba, last_usable_lba, disk_guid, entries_crc) ==
    LET hdr == SetFields(Zeros(512), <<
                  <<0, <<69, 70, 73, 32, 80, 65, 82, 84>> >>,
                  <<8, <<0, 0, 1, 0>> >>,
                  <<12, PackLE(GPT_HEADER_SIZE, 4)>>,
                  <<24, PackLE(my_lba, 8)>>,
                  <<32, PackLE(alt_lba, 8)>>,
                  <<40, PackLE(first_usable_lba, 8)>>,
                  <<48, PackLE(last_usable_lba, 8)>>,
                  <<56, disk_guid>>,
                  <<72, PackLE(entries_lba, 8)>>,
                  <<80, PackLE(GPT_ENTRY_COUNT, 4)>>,
                  <<84, PackLE(GPT_ENTRY_SIZE, 4)>>,
                  <<88, Pack32(entries_crc)>> >>)
    IN  Splice(hdr, 16, Pack32(Crc32(SubSeq(hdr, 1, GPT_HEADER_SIZE))))

\* a faulty create_gpt, whose backup header names the primary entry array:
\* C14_GptHeadersAndEntries tells it from the code's
create_gpt_Mut(im, total_sectors, partitions, disk_guid) ==
    LET entry_sectors == (GPT_ENTRY_COUNT * GPT_ENTRY_SIZE + 511) \div 512
        entries == GptEntries(partitions)
        entries_crc == Crc32(entries)
        first_usable_lba == 2 + entry_sectors
        last_usable_lba == total_sectors - 1 - entry_sectors - 1
        primary == GptHeader(1, total_sectors - 1, 2, first_usable_lba,
                             last_usable_lba, disk_guid, entries_crc)
        backup_entries_lba == total_sectors - 1 - entry_sectors
        backup == GptHeader(total_sectors - 1, 1, 2, first_usable_lba,
                            last_usable_lba, disk_guid, entries_crc)
        im1 == SliceAssign([im EXCEPT !.who = "gpt_primary"], 512, Lit(primary))
        im2 == SliceAssign(im1, 2 * 512, Lit(entries))
        im3 == SliceAssign([im2 EXCEPT !.who = "gpt_backup"],
                           backup_entries_lba * 512, Lit(entries))
        im4 == SliceAssign(im3, (total_sectors - 1) * 512, Lit(backup))
    IN  IF last_usable_lba < 0 \/ \E k \in 1..Len(partitions) : partitions[k].last_lba < 0
        THEN [im |-> im, err |-> "struct.error"]
        ELSE [im |-> im4, err |-> ""]
\* create_gpt; struct.pack of a negative LBA raises
create_gpt(im, total_sectors, partitions, disk_guid) ==
    LET entry_sectors == (GPT_ENTRY_COUNT * GPT_ENTRY_SIZE + 511) \div 512
        entries == GptEntries(partitions)
        entries_crc == Crc32(entries)
        first_usable_lba == 2 + entry_sectors
        last_usable_lba == total_sectors - 1 - entry_sectors - 1
        primary == GptHeader(1, total_sectors - 1, 2, first_usable_lba,
                             last_usable_lba, disk_guid, entries_crc)
        backup_entries_lba == total_sectors - 1 - entry_sectors
        backup == GptHeader(total_sectors - 1, 1, backup_entries_lba, first_usable_lba,
                            last_usable_lba, disk_guid, entries_crc)
        im1 == SliceAssign([im EXCEPT !.who = "gpt_primary"], 512, Lit(primary))
        im2 == SliceAssign(im1, 2 * 512, Lit(entries))
        im3 == SliceAssign([im2 EXCEPT !.who = "gpt_backup"],
                           backup_entries_lba * 512, Lit(entries))
        im4 == SliceAssign(im3, (total_sectors - 1) * 512, Lit(backup))
    IN  IF last_usable_lba < 0 \/ \E k \in 1..Len(partitions) : partitions[k].last_lba < 0
        THEN [im |-> im, err |-> "struct.error"]
        ELSE [im |-> im4, err |-> ""]

-----------------------------------------------------------------------------
(* elf_to_flat_binary.  An ELF file is given by what the struct.unpack     *)
(* calls read from it: the magic, ei_class and the program headers (read   *)
(* with the layout the code picks for ei_class), with the file's bytes     *)
(* being payload blob `blob` of length len.                                *)

elf_to_flat_binary(elf, base_paddr) ==
    LET elf_data == Blob(elf.blob, elf.len)
        segs == SelectSeq(elf.phdrs, LAMBDA ph: ph.p_type = PT_LOAD /\ ph.p_filesz > 0)
        max_paddr_end ==
            FoldRange(LAMBDA m, k: Max(m, segs[k].p_paddr + segs[k].p_memsz),
                      0, 1, Len(segs))
        flat_size == max_paddr_end - base_paddr
        Data(k) == BSlice(elf_data, segs[k].p_offset, segs[k].p_filesz)
        flat == IF Len(segs) = 1 /\ segs[1].p_paddr = base_paddr
                THEN BPad(Data(1), BLen(Data(1)) + Max(0, flat_size - segs[1].p_filesz))
                ELSE Lit(FoldRange(LAMBDA acc, k:
                                     PyAssignTo(acc, segs[k].p_paddr - base_paddr,
                                                segs[k].p_paddr - base_paddr
                                                    + segs[k].p_filesz,
                                                BBytes(Data(k))),
                                   Zeros(flat_size), 1, Len(segs)))
    IN  IF ~elf.magic THEN [err |-> "MalformedInput: not a valid ELF file", flat |-> Lit(<<>>)]
        ELSE IF elf.ei_class \notin {1, 2}
        THEN [err |-> "MalformedInput: unknown ELF class", flat |-> Lit(<<>>)]
        ELSE IF Len(segs) = 0
        THEN [err |-> "MalformedInput: no PT_LOAD segments", flat |-> Lit(<<>>)]
        ELSE IF flat_size < 0
        THEN [err |-> "ValueError", flat |-> Lit(<<>>)]
        ELSE [err |-> "", flat |-> flat]

-----------------------------------------------------------------------------
(* The host side: input files and sysroot trees.  A tree is a set of       *)
(* entries [path, kind, data]; path is the sequence of names from the      *)
(* sysroot, kind is "dir", "file" or "other" (neither, e.g. a socket).     *)

\* bounds of the generated trees
LongNames == 25
ManyFiles == 15
WideDirs == 11
CrowdDirs == 10

File(path, blob, len) == [path |-> path, kind |-> "file", data |-> Blob(blob, len)]
Dir(path) == [path |-> path, kind |-> "dir", data |-> Lit(<<>>)]
Other(path) == [path |-> path, kind |-> "other", data |-> Lit(<<>>)]
\* a 255-character name: 253 times "a" and two digits
LongName(i) == [k \in 1..253 |-> 97] \o <<48 + ((i \div 10) % 10), 48 + (i % 10)>>
\* a 200-character name: 198 times "a" and two digits
MidName(i) == [k \in 1..198 |-> 97] \o <<48 + ((i \div 10) % 10), 48 + (i % 10)>>
\* "F" and two digits
ShortName(i) == <<70, 48 + ((i \div 10) % 10), 48 + (i % 10)>>

Tree(id) ==
    CASE id = "small" ->
           { File(<<<<82, 69, 65, 68, 77, 69, 46, 84, 88, 84>>>>, 3, 5000), Dir(<<<<66, 73, 78>>>>),
             File(<<<<66, 73, 78>>, <<65, 80, 80, 46, 66, 73, 78>>>>, 4, 20000) }
      [] id = "hidden" ->
           { Dir(<<<<46, 103, 105, 116>>>>), File(<<<<46, 103, 105, 116>>, <<99, 111, 110, 102, 105, 103>>>>, 5, 20),
             File(<<<<46, 112, 114, 111, 102, 105, 108, 101>>>>, 6, 5), File(<<<<97, 46, 116, 120, 116>>>>, 7, 10),
             Other(<<<<100, 101, 118>>>>), Dir(<<<<69>>>>) }
      [] id = "long" ->
           { File(<<LongName(i)>>, 2, 0) : i \in 1..LongNames }
             \cup { File(<<<<122, 46, 98, 105, 110>>>>, 8, 600) }
      [] id = "deep" ->
           { Dir(<<<<68>>>>), File(<<<<68>>, <<103, 46, 98, 105, 110>>>>, 9, 100) }
             \cup { File(<<<<68>>, ShortName(i)>>, 2, 0) : i \in 1..ManyFiles }
      [] id = "accent" ->
           { File(<<<<233, 116, 233, 46, 84, 120, 116>>>>, 17, 10) }
      [] id = "wide" ->
           { Dir(<<ShortName(i)>>) : i \in 1..WideDirs }
             \cup { File(<<ShortName(WideDirs), <<120>>>>, 18, 3000) }
      [] id = "clash" ->
           { File(<<<<65, 66, 67, 126, 49, 46, 84, 88, 84>>>>, 19, 10),
             File(<<<<97, 98, 99, 46, 116, 120, 116>>>>, 20, 10),
             File(<<<<97, 98, 99, 100, 101, 102, 103, 104, 105, 46, 116, 120, 116>>>>, 21, 10) }
      [] id = "crowded" ->
           { Dir(<<MidName(i)>>) : i \in 1..CrowdDirs }
      [] OTHER -> {}
TreeIds == {"small", "hidden", "long", "deep"}
\* a sysroot with a non-ASCII file name ("\u00e9t\u00e9.Txt"), given to BIOS runs
AccentTreeIds == {"accent"}
\* a sysroot with so many directories that their extents run past CD sector
\* 32, given to ISO runs
WideTreeIds == {"wide"}
\* a sysroot with the files "ABC~1.TXT", "abc.txt" and "abcdefghi.txt" (13
\* characters), given to FAT16 runs
ClashTreeIds == {"clash"}
\* a sysroot whose root directory has ten subdirectories with names of 200
\* characters, given to ISO runs
CrowdTreeIds == {"crowded"}

\* os.path.isdir(sysroot_path)
IsDir(sysroot) == sysroot \in TreeIds \cup AccentTreeIds \cup WideTreeIds \cup CrowdTreeIds
                      \cup ClashTreeIds
\* the entry of a tree at a path
EntryAt(sysroot, path) == CHOOSE e \in Tree(sysroot) : e.path = path

\* a < b for names, as Python compares str
NameLess(a, b) ==
    LET diff == {i \in 1..Min(Len(a), Len(b)) : a[i] # b[i]}
        first == CHOOSE i \in diff : \A j \in diff : i <= j
    IN  IF diff = {} THEN Len(a) < Len(b) ELSE a[first] < b[first]
RECURSIVE SortNames(_)
SortNames(S) ==
    IF S = {} THEN <<>>
    ELSE LET m == CHOOSE x \in S : \A y \in S : x = y \/ NameLess(x, y)
         IN  <<m>> \o SortNames(S \ {m})
\* sorted(os.listdir(host_path))
ListDir(sysroot, path) ==
    SortNames({ e.path[Len(e.path)] :
                  e \in { x \in Tree(sysroot) :
                            /\ Len(x.path) = Len(path) + 1
                            /\ SubSeq(x.path, 1, Len(path)) = path } })

\* the kernel ELF files of the runs
ElfFile(id) ==
    CASE id = "k100" ->
           [len |-> 55296, blob |-> 10, magic |-> TRUE, ei_class |-> 2,
            phdrs |-> << [p_type |-> 1, p_offset |-> 4096, p_paddr |-> KERNEL_LMA,
                          p_filesz |-> 51200, p_memsz |-> 51200] >>]
      [] id = "ksmall" ->
           [len |-> 8192, blob |-> 11, magic |-> TRUE, ei_class |-> 1,
            phdrs |-> << [p_type |-> 4, p_offset |-> 300, p_paddr |-> 0,
                          p_filesz |-> 32, p_memsz |-> 32],
                         [p_type |-> 1, p_offset |-> 4096, p_paddr |-> KERNEL_LMA,
                          p_filesz |-> 700, p_memsz |-> 1000] >>]
      [] id = "ktwo" ->
           [len |-> 8192, blob |-> 12, magic |-> TRUE, ei_class |-> 2,
            phdrs |-> << [p_type |-> 1, p_offset |-> 4096, p_paddr |-> KERNEL_LMA,
                          p_filesz |-> 300, p_memsz |-> 300],
                         [p_type |-> 1, p_offset |-> 5000, p_paddr |-> KERNEL_LMA + 1024,
                          p_filesz |-> 200, p_memsz |-> 512],
                         [p_type |-> 1, p_offset |-> 6000, p_paddr |-> KERNEL_LMA + 4096,
                          p_filesz |-> 0, p_memsz |-> 4096] >>]
      [] id = "kbig" ->
           [len |-> 3304096, blob |-> 13, magic |-> TRUE, ei_class |-> 2,
            phdrs |-> << [p_type |-> 1, p_offset |-> 4096, p_paddr |-> KERNEL_LMA,
                          p_filesz |-> 3300000, p_memsz |-> 3300000] >>]
      [] id = "khuge" ->
           [len |-> 33558529, blob |-> 19, magic |-> TRUE, ei_class |-> 2,
            phdrs |-> << [p_type |-> 1, p_offset |-> 4096, p_paddr |-> KERNEL_LMA,
                          p_filesz |-> 33554433, p_memsz |-> 33554433] >>]
      [] id = "kbad" ->
           [len |-> 100, blob |-> 14, magic |-> FALSE, ei_class |-> 2, phdrs |-> <<>>]
      [] id = "kclass" ->
           [len |-> 100, blob |-> 15, magic |-> TRUE, ei_class |-> 3, phdrs |-> <<>>]
      [] OTHER ->
           [len |-> 200, blob |-> 16, magic |-> TRUE, ei_class |-> 1,
            phdrs |-> << [p_type |-> 2, p_offset |-> 100, p_paddr |-> KERNEL_LMA,
                          p_filesz |-> 50, p_memsz |-> 50] >>]

-----------------------------------------------------------------------------
(* ISO 9660: paths are strings (sequences of character codes) as in the    *)
(* dictionaries of Iso9660Creator, "/" being <<47>>.                       *)

\* struct.pack('>H' / '>I', v)
RECURSIVE PackBE(_, _)
PackBE(v, n) == IF n = 0 THEN <<>> ELSE PackBE(v \div 256, n - 1) \o <<v % 256>>
both_endian_u32(val) == PackLE(val, 4) \o PackBE(val, 4)
both_endian_u16(val) == PackLE(val, 2) \o PackBE(val, 2)
\* the local time the run reads: 2026-11-05 12:00:00
iso_datetime_now == <<126, 11, 5, 12, 0, 0, 0>>
iso_dec_datetime_now == <<50, 48, 50, 54, 49, 49, 48, 53, 49, 50, 48, 48, 48, 48, 48, 48>> \o <<0>>

\* make_dir_record; <<>> when rec[0] = rec_len raises ValueError (a record
\* of more than 255 bytes)
make_dir_record(lba, data_len, flags, name_bytes) ==
    LET name_len == Len(name_bytes)
        rec_len == 33 + name_len + ((33 + name_len) % 2)
    IN  IF rec_len > 255 THEN <<>>
        ELSE SetFields(Zeros(rec_len), <<
                 <<0, <<rec_len, 0>> >>,
                 <<2, both_endian_u32(lba)>>,
                 <<10, both_endian_u32(data_len)>>,
                 <<18, iso_datetime_now>>,
                 <<25, <<flags, 0, 0>> >>,
                 <<28, both_endian_u16(1)>>,
                 <<32, <<name_len>> >>,
                 <<33, name_bytes>> >>)

\* Iso9660Creator.__init__
IsoNew == [comp |-> "iso", dirs |-> <<>>, files |-> <<>>, layout |-> <<>>]
\* iso_path.rstrip('/') + '/' + entry
IsoChild(iso_path, entry) == (IF iso_path = <<47>> THEN <<>> ELSE iso_path) \o <<47>> \o entry
\* '/'.join(d.rstrip('/').split('/')[:-1]) or '/'
IsoParent(d) ==
    LET slashes == {i \in 1..Len(d) : d[i] = 47}
        last == CHOOSE i \in slashes : \A j \in slashes : j <= i
    IN  IF d = <<47>> \/ last = 1 THEN <<47>> ELSE SubSeq(d, 1, last - 1)
\* d.rsplit('/', 1)[-1]
IsoBaseName(d) ==
    LET slashes == {i \in 1..Len(d) : d[i] = 47}
        last == CHOOSE i \in slashes : \A j \in slashes : j <= i
    IN  SubSeq(d, last + 1, Len(d))
\* Iso9660Creator._collect_dir, on entry: the directory is registered
IsoEnterDir(c, iso_path) ==
    IF iso_path \in DOMAIN c.dirs THEN c
    ELSE [c EXCEPT !.dirs = @ @@ (iso_path :> [children |-> <<>>, files |-> <<>>])]
\* Iso9660Creator._collect_dir: one entry of os.listdir
IsoCollectEntry(c, iso_path, entry_name, kind, data) ==
    IF entry_name[1] = 46 THEN c
    ELSE IF kind = "dir"
    THEN IsoEnterDir([c EXCEPT !.dirs[iso_path].children = Append(@, entry_name)],
                     IsoChild(iso_path, entry_name))
    ELSE IF kind = "file"
    THEN [c EXCEPT !.files = (IsoChild(iso_path, entry_name) :> data) @@ @,
                   !.dirs[iso_path].files = Append(@, entry_name)]
    ELSE c

\* a faulty kernel placement, fixed at CD sector 32: C25_IsoLayout tells it
\* from the code's
IsoKernelLba_Mut(next_lba) == 32
\* write_image: kernel_lba = 32, or next_lba when the directories run past it
IsoKernelLba(next_lba) == IF next_lba > 32 THEN next_lba ELSE 32
\* Iso9660Creator.write_image: the assignment of CD sectors
IsoLayout(c, kernel_flat) ==
    LET all_dirs == SortNames(DOMAIN c.dirs)
        all_files == SortNames(DOMAIN c.files)
        next_lba == 22 + Len(all_dirs)
        kernel_lba == IsoKernelLba(next_lba)
        kernel_sectors == IF BLen(kernel_flat) > 0
                          THEN (BLen(kernel_flat) + ISO_BLOCK_SIZE - 1) \div ISO_BLOCK_SIZE
                          ELSE 0
        file_data_lba == kernel_lba + kernel_sectors
        assigned == FoldRange(LAMBDA acc, k:
                        LET sectors == (BLen(c.files[all_files[k]]) + ISO_BLOCK_SIZE - 1)
                                           \div ISO_BLOCK_SIZE
                        IN  [lbas |-> acc.lbas @@ (all_files[k] :> acc.cur),
                             cur |-> acc.cur + Max(sectors, 1)],
                        [lbas |-> <<>>, cur |-> file_data_lba], 1, Len(all_files))
    IN  [all_dirs |-> all_dirs,
         all_files |-> all_files,
         dir_lbas |-> [d \in DOMAIN c.dirs |->
                          21 + CHOOSE k \in 1..Len(all_dirs) : all_dirs[k] = d],
         dir_numbers |-> [d \in DOMAIN c.dirs |->
                          CHOOSE k \in 1..Len(all_dirs) : all_dirs[k] = d],
         kernel_lba |-> kernel_lba,
         kernel_sectors |-> kernel_sectors,
         file_lbas |-> assigned.lbas,
         total_sectors |-> assigned.cur]

\* the records of one directory extent, before padding; <<>> among them
\* stands for a make_dir_record that raised
IsoDirRecords(c, lay, d) ==
    LET d_lba == lay.dir_lbas[d]
        parent == IsoParent(d)
        parent_lba == IF parent \in DOMAIN lay.dir_lbas THEN lay.dir_lbas[parent]
                      ELSE lay.dir_lbas[<<47>>]
        children == c.dirs[d].children
        files_in_dir == c.dirs[d].files
        FileName(fname) ==
            With(Upper(fname), LAMBDA iso_name:
                (IF 46 \in {iso_name[i] : i \in 1..Len(iso_name)} THEN iso_name
                 ELSE iso_name \o <<46>>) \o <<59, 49>>)
    IN  << make_dir_record(d_lba, ISO_BLOCK_SIZE, 2, <<0>>),
           make_dir_record(parent_lba, ISO_BLOCK_SIZE, 2, <<1>>) >>
        \o [k \in 1..Len(children) |->
              make_dir_record(lay.dir_lbas[IsoChild(d, children[k])], ISO_BLOCK_SIZE, 2,
                              Upper(children[k]))]
        \o [k \in 1..Len(files_in_dir) |->
              make_dir_record(lay.file_lbas[IsoChild(d, files_in_dir[k])],
                              BLen(c.files[IsoChild(d, files_in_dir[k])]), 0,
                              FileName(files_in_dir[k]))]
\* one directory extent, padded to the block boundary
IsoDirExtent(records) ==
    With(FoldRange(LAMBDA acc, k: acc \o records[k], <<>>, 1, Len(records)),
         LAMBDA extent:
            extent \o Zeros((ISO_BLOCK_SIZE - (Len(extent) % ISO_BLOCK_SIZE))
                               % ISO_BLOCK_SIZE))

\* the path table: little-endian (L-type) or big-endian (M-type)
IsoPathTable(lay, big_endian) ==
    FoldRange(LAMBDA table, k:
                LET d == lay.all_dirs[k]
                    parent == IsoParent(d)
                    parent_num == IF d = <<47>> THEN 1
                                  ELSE IF parent \in DOMAIN lay.dir_numbers
                                  THEN lay.dir_numbers[parent] ELSE 1
                    name_bytes == IF d = <<47>> THEN <<1>> ELSE Upper(IsoBaseName(d))
                IN  table \o <<Len(name_bytes), 0>>
                      \o (IF big_endian THEN PackBE(lay.dir_lbas[d], 4)
                          ELSE PackLE(lay.dir_lbas[d], 4))
                      \o (IF big_endian THEN PackBE(parent_num, 2)
                          ELSE PackLE(parent_num, 2))
                      \o name_bytes
                      \o (IF Len(name_bytes) % 2 # 0 THEN <<0>> ELSE <<>>),
              <<>>, 1, Len(lay.all_dirs))

\* Iso9660Creator._make_pvd
IsoMakePvd(total_blocks, root_dir_lba, root_dir_size, path_table_lba, path_table_size) ==
    SetFields(Zeros(ISO_BLOCK_SIZE), <<
        <<0, <<1>> >>,
        <<1, <<67, 68, 48, 48, 49>>>>,
        <<6, <<1>> >>,
        <<8, LJust(<<65, 78, 89, 79, 83>>, 32)>>,
        <<40, LJust(<<65, 78, 89, 79, 83, 95, 76, 73, 86, 69>>, 32)>>,
        <<80, both_endian_u32(total_blocks)>>,
        <<120, both_endian_u16(1)>>,
        <<124, both_endian_u16(1)>>,
        <<128, both_endian_u16(ISO_BLOCK_SIZE)>>,
        <<132, both_endian_u32(path_table_size)>>,
        <<140, PackLE(path_table_lba, 4)>>,
        <<144, PackLE(0, 4)>>,
        <<148, PackBE(path_table_lba + 1, 4)>>,
        <<152, PackBE(0, 4)>>,
        <<156, make_dir_record(root_dir_lba, root_dir_size, 2, <<0>>)>>,
        <<574, LJust(<<65, 78, 89, 79, 83, 32, 77, 75, 73, 77, 65, 71, 69>>, 32)>>,
        <<813, iso_dec_datetime_now>>,
        <<830, iso_dec_datetime_now>>,
        <<881, <<1>> >> >>)

\* the El Torito boot record volume descriptor of write_image
IsoBrvd ==
    SetFields(Zeros(ISO_BLOCK_SIZE), <<
        <<0, <<0>> >>,
        <<1, <<67, 68, 48, 48, 49>>>>,
        <<6, <<1>> >>,
        <<7, <<69, 76, 32, 84, 79, 82, 73, 84, 79, 32, 83, 80, 69, 67, 73, 70, 73, 67, 65, 84, 73, 79, 78>> \o Zeros(9)>>,
        <<71, PackLE(19, 4)>> >>)
\* the volume descriptor set terminator of write_image
IsoVdst == SetFields(Zeros(ISO_BLOCK_SIZE), << <<0, <<255>> >>, <<1, <<67, 68, 48, 48, 49>>>>, <<6, <<1>> >> >>)
\* sum of the 16 little-endian words of the first 32 bytes
IsoWordSum(b) == FoldRange(LAMBDA acc, i: acc + UnpackLE(b, 2 * i, 2), 0, 0, 15)
\* a faulty boot catalog, whose validation entry keeps the checksum computed
\* before the key bytes were moved to offsets 30-31: C17_ValidationEntry tells
\* it from the code's
IsoBootCatalog_Mut ==
    LET c0 == SetFields(Zeros(ISO_BLOCK_SIZE),
                        << <<0, <<1, 0>> >>, <<28, <<170, 85>> >>, <<30, <<0, 0>> >> >>)
        c1 == Splice(c0, 26, PackLE((65536 - (IsoWordSum(c0) % 65536)) % 65536, 2))
        c2 == SetFields(c1, << <<30, <<85, 170>> >>, <<28, <<0, 0>> >> >>)
    IN  SetFields(c2, <<
            <<32, <<136, 0>> >>,
            <<34, PackLE(0, 2)>>,
            <<36, <<0, 0>> >>,
            <<38, PackLE(64, 2)>>,
            <<40, PackLE(0, 4)>> >>)
\* the boot catalog of write_image: the validation entry, whose checksum is
\* computed twice (first with the key bytes at 28-29 and stored at 26), and
\* the initial/default entry
IsoBootCatalog ==
    LET c0 == SetFields(Zeros(ISO_BLOCK_SIZE),
                        << <<0, <<1, 0>> >>, <<28, <<170, 85>> >>, <<30, <<0, 0>> >> >>)
        c1 == Splice(c0, 26, PackLE((65536 - (IsoWordSum(c0) % 65536)) % 65536, 2))
        c2 == SetFields(c1, << <<30, <<85, 170>> >>, <<28, <<0, 0>> >> >>)
        c3 == Splice(c2, 28, PackLE((65536 - (IsoWordSum(c2) % 65536)) % 65536, 2))
    IN  SetFields(c3, <<
            <<32, <<136, 0>> >>,
            <<34, PackLE(0, 2)>>,
            <<36, <<0, 0>> >>,
            <<38, PackLE(64, 2)>>,
            <<40, PackLE(0, 4)>> >>)

\* a faulty patch value, the LBA of CD sector 32 whatever the layout is:
\* C16_Stage2Patched tells it from the code's
KernelDiskLba_Mut(kernel_lba) == 128
\* write_image: CD sector -> 512-byte sector
KernelDiskLba(kernel_lba) == kernel_lba * (ISO_BLOCK_SIZE \div SECTOR_SIZE)

\* Iso9660Creator.write_image up to the output file: the world's f is the
\* creator with its layout, im the assembled image
IsoWriteImage(c, stage1_data, stage2_data, kernel_flat) ==
    LET lay == IsoLayout(c, kernel_flat)
        records == [d \in DOMAIN c.dirs |-> IsoDirRecords(c, lay, d)]
        dir_extents == [d \in DOMAIN c.dirs |-> IsoDirExtent(records[d])]
        kernel_disk_lba == KernelDiskLba(lay.kernel_lba)
        kernel_disk_sectors == IF BLen(kernel_flat) > 0
                               THEN (BLen(kernel_flat) + SECTOR_SIZE - 1) \div SECTOR_SIZE
                               ELSE 0
        stage2_patched == IF BLen(stage2_data) >= 8
                          THEN Lit(SetFields(BBytes(stage2_data), <<
                                   <<2, PackLE(kernel_disk_sectors, 2)>>,
                                   <<4, PackLE(kernel_disk_lba, 4)>> >>))
                          ELSE stage2_data
        Put(im, who, off, d) == SliceAssign([im EXCEPT !.who = who], off, d)
        Assemble(path_table, path_table_m, pvd) ==
            FoldRange(LAMBDA im, k:
                        Put(im, "files", lay.file_lbas[lay.all_files[k]] * ISO_BLOCK_SIZE,
                            c.files[lay.all_files[k]]),
              Put(
                FoldRange(LAMBDA im, k:
                            Put(im, "dirs", lay.dir_lbas[lay.all_dirs[k]] * ISO_BLOCK_SIZE,
                                Lit(dir_extents[lay.all_dirs[k]])),
                  Put(Put(Put(Put(Put(Put(Put(Put(
                      NewImage(lay.total_sectors * ISO_BLOCK_SIZE),
                      "stage1", 0, stage1_data),
                      "stage2", SECTOR_SIZE, stage2_patched),
                      "pvd", 16 * ISO_BLOCK_SIZE, Lit(pvd)),
                      "brvd", 17 * ISO_BLOCK_SIZE, Lit(IsoBrvd)),
                      "vdst", 18 * ISO_BLOCK_SIZE, Lit(IsoVdst)),
                      "boot_cat", 19 * ISO_BLOCK_SIZE, Lit(IsoBootCatalog)),
                      "path_table_l", 20 * ISO_BLOCK_SIZE, Lit(path_table)),
                      "path_table_m", 21 * ISO_BLOCK_SIZE, Lit(path_table_m)),
                  1, Len(lay.all_dirs)),
                "kernel", lay.kernel_lba * ISO_BLOCK_SIZE, kernel_flat),
              1, Len(lay.all_files))
        Raise(e) == [World([c EXCEPT !.layout = lay], NoImage) EXCEPT !.err = e]
    IN  IF \E d \in DOMAIN c.dirs : \E k \in 1..Len(records[d]) : records[d][k] = <<>>
        THEN Raise("ValueError")
        ELSE IF \E d \in DOMAIN c.dirs : d # <<47>> /\ Len(IsoBaseName(d)) > 255
        THEN Raise("ValueError")
        ELSE IF <<47>> \notin DOMAIN c.dirs
        THEN Raise("KeyError")
        ELSE IF kernel_disk_sectors > 65535 /\ BLen(stage2_data) >= 8
        THEN Raise("struct.error")
        ELSE World([c EXCEPT !.layout = lay],
                   Assemble(IsoPathTable(lay, FALSE), IsoPathTable(lay, TRUE),
                            IsoMakePvd(lay.total_sectors, lay.dir_lbas[<<47>>],
                                       Len(dir_extents[<<47>>]), 20,
                                       Len(IsoPathTable(lay, FALSE)))))

-----------------------------------------------------------------------------
(* The runs *)

\* an --image-size (MiB) whose exFAT volume, from the default --fs-start
\* 8192, has more than 8 * 4096 clusters
LargeMiB == 133
NoLocals == [stage2 |-> Lit(<<>>), kernel |-> Lit(<<>>), has_kernel |-> FALSE]

\* the command lines of the runs; a file option is given by the length of
\* the file (-1: option absent), the kernel and the sysroot by their names
\* ("": option absent)
BiosArgs ==
    { a \in [image_size : {1, LargeMiB},
             fs_start : {163, 164, 1800, 1951, 2010, 2100, 8192},
             stage1 : {-1, 512, 100, 513}, stage2 : {-1, 5120, 4, 32257, 32256},
             kernel : {"", "k100", "ksmall", "ktwo", "kbad", "kclass", "knoload"},
             bootloader : {-1}, sysroot : {"", "missing"} \cup TreeIds \cup AccentTreeIds,
             volume : {<<0, 0>>}, uuid_seed : {0}] :
        LET N(b) == IF b THEN 1 ELSE 0
            odd == N(a.stage1 # 512) + N(a.stage2 # 5120)
                     + N(a.kernel \notin {"k100", "ksmall"})
                     + N(a.fs_start \in {163, 2010, 2100})
        IN  /\ odd <= 1
            /\ odd = 1 => a.sysroot \in {"", "small"}
            /\ (odd = 1 /\ a.fs_start \notin {163, 2010, 2100}) => a.fs_start = 1800
            /\ (a.image_size = LargeMiB) = (a.fs_start = 8192)
            /\ a.image_size = LargeMiB => (odd = 0 /\ a.sysroot = "small") }
UefiArgs ==
    { a \in [image_size : {5, 4, 3, 6}, fs_start : {8192},
             stage1 : {-1}, stage2 : {-1},
             kernel : {"", "ksmall", "kbig", "kbad"},
             bootloader : {-1, 1000}, sysroot : {"", "small", "long"},
             volume : {<<0, 0>>}, uuid_seed : {1, 2}] :
        /\ (a.image_size = 4 \/ a.bootloader = -1 \/ a.kernel = "kbad" \/ a.uuid_seed = 2)
              => a.sysroot = ""
        /\ a.image_size \in {3, 6} =>
              (a.bootloader = 1000 /\ a.kernel \in {"", "ksmall"} /\ a.uuid_seed = 1
                 /\ a.sysroot \in {"", "small"} /\ (a.image_size = 3 => a.sysroot = ""))
        /\ a.kernel = "kbig" => (a.sysroot # "long" /\ a.image_size = 5 /\ a.uuid_seed = 1
                                    /\ a.bootloader = 1000) }
IsoArgs ==
    { a \in [image_size : {0}, fs_start : {0},
             stage1 : {-1, 512, 100, 513}, stage2 : {-1, 5120, 4, 32257, 32256},
             kernel : {"", "k100", "ksmall", "kbad", "khuge"},
             bootloader : {-1}, sysroot : {"", "missing"} \cup TreeIds \cup WideTreeIds \cup CrowdTreeIds,
             volume : {<<0, 0>>}, uuid_seed : {0}] :
        LET N(b) == IF b THEN 1 ELSE 0
            odd == N(a.stage1 # 512) + N(a.stage2 # 5120)
                     + N(a.kernel \notin {"k100", "ksmall"})
        IN  /\ odd <= 1
            /\ odd = 1 => a.sysroot \in {"", "small"} }
Fat16Args ==
    { a \in [image_size : {0}, fs_start : {0}, stage1 : {-1}, stage2 : {-1}, kernel : {""},
             bootloader : {-1}, sysroot : {"missing"} \cup TreeIds \cup ClashTreeIds,
             volume : {<<16384, 8>>, <<40, 1>>, <<2083, 8>>}, uuid_seed : {0}] :
        /\ a.volume = <<2083, 8>> => a.sysroot = "small"
        /\ a.sysroot \in ClashTreeIds => a.volume = <<16384, 8>> }

\* _populate_dir returns from every directory whose entries are used up
RECURSIVE Unwind(_)
Unwind(st) == IF st # <<>> /\ st[1].todo = <<>> THEN Unwind(Tail(st)) ELSE st
\* the call _populate_dir(host_path, parent_cluster)
Frame(sysroot, path, parent, is_root) ==
    [todo |-> ListDir(sysroot, path), path |-> path, parent |-> parent,
     is_root |-> is_root]

Init ==
    /\ mode \in {"bios", "uefi", "iso", "fat16"}
    /\ args \in (CASE mode = "bios" -> BiosArgs
                   [] mode = "uefi" -> UefiArgs
                   [] mode = "iso" -> IsoArgs
                   [] OTHER -> Fat16Args)
    /\ pc = "main"
    /\ locals = NoLocals
    /\ image = NoImage
    /\ fat = NoFmt
    /\ exf = NoFmt
    /\ iso = NoFmt
    /\ stack = <<>>
    /\ out_writes = <<>>
    /\ err = ""

\* sys.exit(1) after an error message, or an exception that ends the run
Abort(msg) ==
    /\ pc' = "failed"
    /\ err' = msg

\* main
Main ==
    /\ pc = "main"
    /\ IF mode = "bios" /\ (args.stage1 = -1 \/ args.stage2 = -1 \/ args.kernel = "")
       THEN Abort("MissingRequiredInput")
       ELSE /\ pc' = (CASE mode = "bios" -> "create_bios_image"
                        [] mode = "uefi" -> "create_uefi_image"
                        [] mode = "iso" -> "create_iso_image"
                        [] OTHER -> "fat16_format")
            /\ err' = err
    /\ UNCHANGED <<mode, args, locals, image, fat, exf, iso, stack, out_writes>>

\* a faulty overlap check, which also rejects a kernel that ends exactly at
\* fs_start: C1_OverlapCheck tells it from the code's
KernelOverlaps_Mut(kernel_end_sector, fs_start) == kernel_end_sector >= fs_start
\* the overlap check of create_bios_image
KernelOverlaps(kernel_end_sector, fs_start) == kernel_end_sector > fs_start

\* a faulty size check, which also rejects a stage 2 of exactly 63 sectors:
\* C20_InputChecks tells it from the code's
Stage2TooLarge_Mut(stage2_len) == stage2_len >= STAGE2_MAX_SECTORS * SECTOR_SIZE
\* the size check of stage 2 in create_bios_image and create_iso_image
Stage2TooLarge(stage2_len) == stage2_len > STAGE2_MAX_SECTORS * SECTOR_SIZE

\* create_bios_image, up to the flat kernel: the stage checks and the ELF
BiosReadInputs ==
    /\ pc = "create_bios_image"
    /\ \E r \in {elf_to_flat_binary(ElfFile(args.kernel), KERNEL_LMA)} :
           IF args.stage1 # SECTOR_SIZE
           THEN Abort("SizeConstraintViolation: stage1") /\ locals' = locals
           ELSE IF Stage2TooLarge(args.stage2)
           THEN Abort("SizeConstraintViolation: stage2") /\ locals' = locals
           ELSE IF r.err # ""
           THEN Abort(r.err) /\ locals' = locals
           ELSE /\ pc' = "bios_layout"
                /\ err' = err
                /\ locals' = [stage2 |-> Blob(1, args.stage2), kernel |-> r.flat,
                              has_kernel |-> TRUE]
    /\ UNCHANGED <<mode, args, image, fat, exf, iso, stack, out_writes>>

\* create_bios_image: the overlap check and the patch of stage 2
BiosCheckLayout ==
    /\ pc = "bios_layout"
    /\ LET kernel_sectors == (BLen(locals.kernel) + SECTOR_SIZE - 1) \div SECTOR_SIZE
           kernel_end_sector == KERNEL_START_SECTOR + kernel_sectors
       IN  IF KernelOverlaps(kernel_end_sector, args.fs_start)
           THEN Abort("LayoutOverlap") /\ locals' = locals
           ELSE IF kernel_sectors > 65535 /\ BLen(locals.stage2) >= 8
           THEN Abort("struct.error") /\ locals' = locals
           ELSE /\ pc' = "bios_assemble"
                /\ err' = err
                /\ locals' = [locals EXCEPT !.stage2 =
                      IF BLen(@) >= 8
                      THEN Lit(SetFields(BBytes(@), <<
                               <<2, PackLE(kernel_sectors, 2)>>,
                               <<4, PackLE(KERNEL_START_SECTOR, 4)>> >>))
                      ELSE @]
    /\ UNCHANGED <<mode, args, image, fat, exf, iso, stack, out_writes>>

\* create_bios_image: the image buffer, stage 1, stage 2 and the kernel
BiosAssemble ==
    /\ pc = "bios_assemble"
    /\ image' =
          SliceAssign(
            [SliceAssign(
               [SliceAssign([NewImage(args.image_size * 1024 * 1024)
                               EXCEPT !.who = "stage1"], 0, Blob(17, args.stage1))
                  EXCEPT !.who = "stage2"], SECTOR_SIZE, locals.stage2)
               EXCEPT !.who = "kernel"],
            KERNEL_START_SECTOR * SECTOR_SIZE, locals.kernel)
    /\ pc' = "exfat_format"
    /\ UNCHANGED <<mode, args, locals, fat, exf, iso, stack, out_writes, err>>

\* a faulty layout, whose data partition runs to the last sector of the disk:
\* C15_UefiPartitions tells it from the code's
UefiLayout_Mut(image_size_mib) ==
    LET total_sectors == (image_size_mib * 1024 * 1024) \div SECTOR_SIZE
        entry_sectors == (GPT_ENTRY_COUNT * GPT_ENTRY_SIZE + 511) \div 512
        data_start == ESP_START + ESP_SECTORS
        data_end == total_sectors - 1
    IN  [total_sectors |-> total_sectors, entry_sectors |-> entry_sectors,
         esp_start |-> ESP_START, esp_sectors |-> ESP_SECTORS,
         esp_end |-> ESP_START + ESP_SECTORS - 1,
         data_start |-> data_start, data_end |-> data_end,
         data_sectors |-> data_end - data_start + 1]
\* the partition layout of create_uefi_image
UefiLayout(image_size_mib) ==
    LET total_sectors == (image_size_mib * 1024 * 1024) \div SECTOR_SIZE
        entry_sectors == (GPT_ENTRY_COUNT * GPT_ENTRY_SIZE + 511) \div 512
        data_start == ESP_START + ESP_SECTORS
        data_end == total_sectors - 1 - entry_sectors - 1
    IN  [total_sectors |-> total_sectors, entry_sectors |-> entry_sectors,
         esp_start |-> ESP_START, esp_sectors |-> ESP_SECTORS,
         esp_end |-> ESP_START + ESP_SECTORS - 1,
         data_start |-> data_start, data_end |-> data_end,
         data_sectors |-> data_end - data_start + 1]

\* create_uefi_image, up to the flat kernel
UefiReadInputs ==
    /\ pc = "create_uefi_image"
    /\ \E r \in {elf_to_flat_binary(ElfFile(args.kernel), KERNEL_LMA)} :
           IF args.bootloader = -1
           THEN Abort("MissingRequiredInput") /\ locals' = locals
           ELSE IF args.kernel # "" /\ r.err # ""
           THEN Abort(r.err) /\ locals' = locals
           ELSE /\ pc' = "uefi_partition"
                /\ err' = err
                /\ locals' = IF args.kernel # ""
                             THEN [locals EXCEPT !.kernel = r.flat, !.has_kernel = TRUE]
                             ELSE locals
    /\ UNCHANGED <<mode, args, image, fat, exf, iso, stack, out_writes>>

\* create_uefi_image: the image buffer, the protective MBR and the GPT
UefiPartition ==
    /\ pc = "uefi_partition"
    /\ LET lay == UefiLayout(args.image_size)
           partitions ==
               << [type_guid |-> ESP_TYPE_GUID, unique_guid |-> Uuid4(args.uuid_seed, 1),
                   first_lba |-> lay.esp_start, last_lba |-> lay.esp_end,
                   name |-> <<69, 0, 70, 0, 73, 0, 32, 0, 83, 0, 121, 0, 115, 0, 116, 0, 101, 0, 109, 0>>],
                  [type_guid |-> BASIC_DATA_TYPE_GUID,
                   unique_guid |-> Uuid4(args.uuid_seed, 2),
                   first_lba |-> lay.data_start, last_lba |-> lay.data_end,
                   name |-> <<97, 0, 110, 0, 121, 0, 79, 0, 83, 0, 32, 0, 68, 0, 97, 0, 116, 0, 97, 0>>] >>
       IN  \E r \in {Bind(write_protective_mbr(NewImage(args.image_size * 1024 * 1024),
                                               lay.total_sectors),
                          LAMBDA r1: create_gpt(r1.im, lay.total_sectors, partitions,
                                                Uuid4(args.uuid_seed, 3)))} :
              /\ image' = r.im
              /\ IF r.err # "" THEN Abort(r.err) ELSE pc' = "uefi_esp" /\ err' = err
    /\ UNCHANGED <<mode, args, locals, fat, exf, iso, stack, out_writes>>

\* create_uefi_image: the ESP with /EFI/BOOT/BOOTX64.EFI and the kernel
UefiEsp ==
    /\ pc = "uefi_esp"
    /\ \E w \in {
          Bind(FatCreateDirectory(
                 FatInitFat(FatWriteBootSector(Fat16New(image, ESP_START, ESP_SECTORS, 1))),
                 0, <<69, 70, 73>>, TRUE), LAMBDA efi:
            Bind(FatCreateDirectory(efi, efi.ret, <<66, 79, 79, 84>>, FALSE), LAMBDA boot:
              Bind(FatAddFile(boot, boot.ret,
                              <<66, 79, 79, 84, 88, 54, 52, 46, 69, 70, 73>>,
                              Blob(18, args.bootloader), FALSE), LAMBDA wc:
                IF locals.has_kernel /\ BLen(locals.kernel) > 0
                THEN Bind(FatCreateDirectory(wc, 0, <<83, 121, 115, 116, 101, 109>>, TRUE),
                          LAMBDA sys:
                            FatAddFile(sys, sys.ret,
                                       <<107, 101, 114, 110, 101, 108, 46, 98, 105, 110>>,
                                       locals.kernel, FALSE))
                ELSE wc)))} :
           /\ fat' = w.f
           /\ image' = w.im
           /\ IF w.err # "" THEN Abort(w.err) ELSE pc' = "exfat_format" /\ err' = err
    /\ UNCHANGED <<mode, args, locals, exf, iso, stack, out_writes>>

\* the ExFatFormatter of create_bios_image / create_uefi_image:
\* the constructor, write_boot_sector and init_fs
ExfatFormat ==
    /\ pc = "exfat_format"
    /\ LET fs_start == IF mode = "bios" THEN args.fs_start
                       ELSE UefiLayout(args.image_size).data_start
           fs_sector_count == IF mode = "bios"
                              THEN (image.len \div SECTOR_SIZE) - args.fs_start
                              ELSE UefiLayout(args.image_size).data_sectors
       IN  \E w \in {ExfInitFs(ExfWriteBootSector(
                        ExFatNew(image, fs_start, fs_sector_count, 8)))} :
           \E st \in {IF w.err = "" /\ IsDir(args.sysroot)
                      THEN Unwind(<<Frame(args.sysroot, <<>>, w.f.root_cluster, TRUE)>>)
                      ELSE <<>>} :
              /\ exf' = w.f
              /\ image' = w.im
              /\ IF w.err # ""
                 THEN Abort(w.err) /\ stack' = stack
                 ELSE /\ stack' = st
                      /\ pc' = IF st = <<>> THEN "exfat_flush" ELSE "exfat_populate"
                      /\ err' = err
    /\ UNCHANGED <<mode, args, locals, fat, iso, out_writes>>

\* ExFatFormatter._populate_dir: one entry of the directory being copied
ExfatPopulate ==
    /\ pc = "exfat_populate"
    /\ LET frame == stack[1]
           entry_name == frame.todo[1]
           full_path == Append(frame.path, entry_name)
           rest == <<[frame EXCEPT !.todo = Tail(@)]>> \o Tail(stack)
       IN  \E entry \in {EntryAt(args.sysroot, full_path)} :
           \E w \in {IF entry_name[1] = 46 \/ entry.kind = "other" THEN World(exf, image)
                     ELSE IF entry.kind = "dir"
                     THEN ExfCreateDirectory(World(exf, image), frame.parent, entry_name)
                     ELSE ExfAddFile(World(exf, image), frame.parent, entry_name,
                                     entry.data)} :
           \E st \in {Unwind(IF entry_name[1] # 46 /\ entry.kind = "dir"
                             THEN <<Frame(args.sysroot, full_path, w.ret, FALSE)>> \o rest
                             ELSE rest)} :
              /\ exf' = w.f
              /\ image' = w.im
              /\ IF w.err # ""
                 THEN Abort(w.err) /\ stack' = stack
                 ELSE /\ stack' = st
                      /\ pc' = IF st = <<>> THEN "exfat_flush" ELSE "exfat_populate"
                      /\ err' = err
    /\ UNCHANGED <<mode, args, locals, fat, iso, out_writes>>

\* exfat.flush_fat_and_bitmap()
ExfatFlush ==
    /\ pc = "exfat_flush"
    /\ \E w \in {ExfFlushFatAndBitmap(World(exf, image))} :
           /\ exf' = w.f
           /\ image' = w.im
           /\ IF w.err # "" THEN Abort(w.err) ELSE pc' = "persist" /\ err' = err
    /\ UNCHANGED <<mode, args, locals, fat, iso, stack, out_writes>>

\* a faulty last step, which writes the output file twice:
\* C2_OutputWrittenOnceLast tells it from the code's
Persist_Mut ==
    /\ pc = "persist"
    /\ out_writes' = out_writes \o <<[len |-> image.len], [len |-> image.len]>>
    /\ pc' = "done"
    /\ UNCHANGED <<mode, args, locals, image, fat, exf, iso, stack, err>>
\* with open(args.output, "wb") as f: f.write(image)
Persist ==
    /\ pc = "persist"
    /\ out_writes' = Append(out_writes, [len |-> image.len])
    /\ pc' = "done"
    /\ UNCHANGED <<mode, args, locals, image, fat, exf, iso, stack, err>>

\* create_iso_image, up to the call of write_image without the sysroot: the
\* checks, the ELF and the Iso9660Creator
IsoReadInputs ==
    /\ pc = "create_iso_image"
    /\ \E r \in {elf_to_flat_binary(ElfFile(args.kernel), KERNEL_LMA)} :
       \E st \in {IF IsDir(args.sysroot)
                  THEN Unwind(<<Frame(args.sysroot, <<>>, <<47>>, TRUE)>>)
                  ELSE <<>>} :
           IF args.stage1 = -1 \/ args.stage2 = -1 \/ args.kernel = ""
           THEN Abort("MissingRequiredInput") /\ UNCHANGED <<locals, iso, stack>>
           ELSE IF args.stage1 # SECTOR_SIZE
           THEN Abort("SizeConstraintViolation: stage1") /\ UNCHANGED <<locals, iso, stack>>
           ELSE IF Stage2TooLarge(args.stage2)
           THEN Abort("SizeConstraintViolation: stage2") /\ UNCHANGED <<locals, iso, stack>>
           ELSE IF r.err # ""
           THEN Abort(r.err) /\ UNCHANGED <<locals, iso, stack>>
           ELSE /\ locals' = [stage2 |-> Blob(1, args.stage2), kernel |-> r.flat,
                              has_kernel |-> TRUE]
                /\ iso' = IF IsDir(args.sysroot) THEN IsoEnterDir(IsoNew, <<47>>)
                          ELSE IsoNew
                /\ stack' = st
                /\ pc' = IF st = <<>> THEN "iso_write" ELSE "iso_collect"
                /\ err' = err
    /\ UNCHANGED <<mode, args, image, fat, exf, out_writes>>

\* Iso9660Creator._collect_dir: one entry of the directory being collected
IsoCollect ==
    /\ pc = "iso_collect"
    /\ LET frame == stack[1]
           entry_name == frame.todo[1]
           full_path == Append(frame.path, entry_name)
           rest == <<[frame EXCEPT !.todo = Tail(@)]>> \o Tail(stack)
       IN  \E entry \in {EntryAt(args.sysroot, full_path)} :
           \E st \in {Unwind(IF entry_name[1] # 46 /\ entry.kind = "dir"
                             THEN <<Frame(args.sysroot, full_path,
                                          IsoChild(frame.parent, entry_name), FALSE)>>
                                      \o rest
                             ELSE rest)} :
              /\ iso' = IsoCollectEntry(iso, frame.parent, entry_name, entry.kind,
                                        entry.data)
              /\ stack' = st
              /\ pc' = IF st = <<>> THEN "iso_write" ELSE "iso_collect"
    /\ UNCHANGED <<mode, args, locals, image, fat, exf, out_writes, err>>

\* Iso9660Creator.write_image: the layout, the image and the output file
IsoWrite ==
    /\ pc = "iso_write"
    /\ \E w \in {IsoWriteImage(iso, Blob(17, args.stage1), locals.stage2,
                                locals.kernel)} :
           /\ iso' = w.f
           /\ image' = w.im
           /\ IF w.err # ""
              THEN Abort(w.err) /\ out_writes' = out_writes
              ELSE /\ out_writes' = Append(out_writes, [len |-> w.im.len])
                   /\ pc' = "done"
                   /\ err' = err
    /\ UNCHANGED <<mode, args, locals, fat, exf, stack>>

\* Fat16Formatter on a volume of its own: the constructor, write_boot_sector,
\* init_fat and populate_from_sysroot up to the call of _populate_dir
Fat16Format ==
    /\ pc = "fat16_format"
    /\ LET sectors == args.volume[1]
           st == IF IsDir(args.sysroot)
                 THEN Unwind(<<Frame(args.sysroot, <<>>, 0, TRUE)>>)
                 ELSE <<>>
       IN  \E w1 \in {FatInitFat(FatWriteBootSector(
                         Fat16New(NewImage((sectors + TailSectors) * SECTOR_SIZE), 0,
                                  sectors, args.volume[2])))} :
           \E w \in {IF IsDir(args.sysroot) THEN FatWriteVolumeLabel(w1) ELSE w1} :
              /\ fat' = w.f
              /\ image' = w.im
              /\ IF w.err # ""
                 THEN Abort(w.err) /\ stack' = stack
                 ELSE /\ stack' = st
                      /\ pc' = IF st = <<>> THEN "done" ELSE "fat16_populate"
                      /\ err' = err
    /\ UNCHANGED <<mode, args, locals, exf, iso, out_writes>>

\* Fat16Formatter._populate_dir: one entry of the directory being copied
Fat16Populate ==
    /\ pc = "fat16_populate"
    /\ LET frame == stack[1]
           entry_name == frame.todo[1]
           full_path == Append(frame.path, entry_name)
           rest == <<[frame EXCEPT !.todo = Tail(@)]>> \o Tail(stack)
       IN  \E entry \in {EntryAt(args.sysroot, full_path)} :
           \E w \in {IF entry_name[1] = 46 \/ entry.kind = "other" THEN World(fat, image)
                     ELSE IF entry.kind = "dir"
                     THEN FatCreateDirectory(World(fat, image), frame.parent, entry_name,
                                             frame.is_root)
                     ELSE FatAddFile(World(fat, image), frame.parent, entry_name,
                                     entry.data, frame.is_root)} :
           \E st \in {Unwind(IF entry_name[1] # 46 /\ entry.kind = "dir"
                             THEN <<Frame(args.sysroot, full_path, w.ret, FALSE)>> \o rest
                             ELSE rest)} :
              /\ fat' = w.f
              /\ image' = w.im
              /\ IF w.err # ""
                 THEN Abort(w.err) /\ stack' = stack
                 ELSE /\ stack' = st
                      /\ pc' = IF st = <<>> THEN "done" ELSE "fat16_populate"
                      /\ err' = err
    /\ UNCHANGED <<mode, args, locals, exf, iso, out_writes>>

Next ==
    \/ Main
    \/ BiosReadInputs
    \/ BiosCheckLayout
    \/ BiosAssemble
    \/ UefiReadInputs
    \/ UefiPartition
    \/ UefiEsp
    \/ ExfatFormat
    \/ ExfatPopulate
    \/ ExfatFlush
    \/ Persist
    \/ IsoReadInputs
    \/ IsoCollect
    \/ IsoWrite
    \/ Fat16Format
    \/ Fat16Populate

Spec == Init /\ [][Next]_vars

-----------------------------------------------------------------------------
(* The two ELF flatteners on their own: elf2bin.py and the                 *)
(* elf_to_flat_binary of mkimage.py, on small ELF files.                   *)

\* elf2bin.py: parse_elf_segments.  ei_class 2 is read as ELF64 and every
\* other class as ELF32
parse_elf_segments(elf) ==
    LET segments == SelectSeq(elf.phdrs, LAMBDA ph: ph.p_type = 1)
    IN  IF ~elf.magic THEN [err |-> "Error: not an ELF file", segments |-> <<>>]
        ELSE IF segments = <<>>
        THEN [err |-> "Error: no PT_LOAD segments found", segments |-> <<>>]
        ELSE [err |-> "", segments |-> segments]
\* elf2bin.py: elf2bin, from the segments to the bytes written to bin_path
elf2bin(elf, segments) ==
    LET data == Blob(elf.blob, elf.len)
        base == FoldRange(LAMBDA m, k: Min(m, segments[k].p_vaddr),
                          segments[1].p_vaddr, 1, Len(segments))
        end == FoldRange(LAMBDA m, k: Max(m, segments[k].p_vaddr + segments[k].p_memsz),
                         segments[1].p_vaddr + segments[1].p_memsz, 1, Len(segments))
        size == end - base
    IN  FoldRange(LAMBDA flat, k:
                    With(segments[k].p_vaddr - base, LAMBDA dest:
                        PyAssignTo(flat, dest, dest + segments[k].p_filesz,
                                   BBytes(BSlice(data, segments[k].p_offset,
                                                 segments[k].p_filesz)))),
                  Zeros(size), 1, Len(segments))

\* bounds of the ELF files: the length of the file, and the addresses,
\* offsets and sizes of its program headers
ElfFileLen == 24
ElfPhdrs ==
    { [p_type |-> 1, p_offset |-> o, p_paddr |-> a, p_filesz |-> fs, p_memsz |-> fs + g] :
        o \in {0, 8}, a \in {8, 16, 24}, fs \in {0, 4}, g \in {0, 4} }
    \cup { [p_type |-> 2, p_offset |-> 0, p_paddr |-> 16, p_filesz |-> 4, p_memsz |-> 4] }
\* the ELF files: up to two program headers; virt is p_vaddr - p_paddr, the
\* same for every segment of a file
ElfInputs ==
    { [len |-> ElfFileLen, blob |-> 20, magic |-> m, ei_class |-> c,
       phdrs |-> [k \in 1..Len(hs) |->
                    [hs[k] EXCEPT !.p_paddr = @] @@ ("p_vaddr" :> hs[k].p_paddr + v)]] :
        m \in BOOLEAN, c \in {1, 2, 3}, v \in {0, 64},
        hs \in {<<>>} \cup {<<h>> : h \in ElfPhdrs}
                 \cup {<<h1, h2>> : h1 \in ElfPhdrs, h2 \in ElfPhdrs} }
\* the base_paddr of the runs of elf_to_flat_binary
ElfBases == {16}

ElfInit ==
    /\ mode \in {"elf2bin", "elf_to_flat_binary"}
    /\ args \in [elf : { e \in ElfInputs : e.magic \/ (Len(e.phdrs) = 1 /\ e.ei_class = 1) },
                  base_paddr : ElfBases]
    /\ pc = mode
    /\ locals = [segments |-> <<>>, flat |-> <<>>]
    /\ image = NoImage
    /\ fat = NoFmt
    /\ exf = NoFmt
    /\ iso = NoFmt
    /\ stack = <<>>
    /\ out_writes = <<>>
    /\ err = ""

\* elf2bin.py, elf2bin: the file is read and parse_elf_segments called
Elf2BinParse ==
    /\ pc = "elf2bin"
    /\ \E r \in {parse_elf_segments(args.elf)} :
           IF r.err # ""
           THEN Abort(r.err) /\ locals' = locals
           ELSE /\ pc' = "elf2bin_flat"
                /\ err' = err
                /\ locals' = [locals EXCEPT !.segments = r.segments]
    /\ UNCHANGED <<mode, args, image, fat, exf, iso, stack, out_writes>>
\* elf2bin.py, elf2bin: the flat buffer is built and written to bin_path
Elf2BinWrite ==
    /\ pc = "elf2bin_flat"
    /\ \E flat \in {elf2bin(args.elf, locals.segments)} :
           /\ locals' = [locals EXCEPT !.flat = flat]
           /\ out_writes' = Append(out_writes, [len |-> Len(flat)])
    /\ pc' = "done"
    /\ UNCHANGED <<mode, args, image, fat, exf, iso, stack, err>>
\* mkimage.py: a call of elf_to_flat_binary
ElfToFlatBinary ==
    /\ pc = "elf_to_flat_binary"
    /\ \E r \in {elf_to_flat_binary(args.elf, args.base_paddr)} :
           IF r.err # ""
           THEN Abort(r.err) /\ locals' = locals
           ELSE /\ pc' = "done"
                /\ err' = err
                /\ locals' = [locals EXCEPT !.flat = BBytes(r.flat)]
    /\ UNCHANGED <<mode, args, image, fat, exf, iso, stack, out_writes>>

ElfNext ==
    \/ Elf2BinParse
    \/ Elf2BinWrite
    \/ ElfToFlatBinary

SpecElf == ElfInit /\ [][ElfNext]_vars

-----------------------------------------------------------------------------
(* Reading the image back, as a consumer of it does *)

\* the clusters handed out so far
AllOwned(owned) == UNION {owned[i].clusters : i \in 1..Len(owned)}
\* two byte strings with the same bytes
SameBytes(a, b) == a = b \/ BBytes(a) = BBytes(b)
\* the 16-bit entry of cluster c in FAT copy fat_idx of the image (0 when the
\* entry lies past the end of the image)
FatEntryOnDisk(f, im, fat_idx, c) ==
    With(ReadBytes(im, (f.fs_start + f.first_fat_sector + fat_idx * f.fat_size)
                          * SECTOR_SIZE + c * 2, 2),
         LAMBDA b: IF Len(b) = 2 THEN UnpackLE(b, 0, 2) ELSE 0)
\* the chain that starts at cluster first in FAT copy 0, followed for at most
\* max + 1 clusters: the clusters met and the entry that ended the chain
FatChain(f, im, first, max) ==
    FoldRange(LAMBDA st, k:
                IF st.done THEN st
                ELSE With(FatEntryOnDisk(f, im, 0, st.cur), LAMBDA e:
                        [clusters |-> Append(st.clusters, st.cur),
                         cur |-> e, last |-> e, done |-> e >= 65528 \/ e < 2]),
              [clusters |-> <<>>, cur |-> first, last |-> 0, done |-> FALSE],
              1, max + 1)
\* the k-th cluster (from 0) of file's chain holds the k-th cluster of its
\* data, zero-padded
FatClusterHolds(f, im, cluster, data, k) ==
    \A s \in 0..(f.sectors_per_cluster - 1) :
        SameBytes(SecOf(im, f.fs_start + FatClusterToSector(f, cluster) + s),
                  BPad(BSlice(data, (k * f.sectors_per_cluster + s) * SECTOR_SIZE,
                              SECTOR_SIZE), SECTOR_SIZE))
\* the sectors of the image that hold the exFAT FAT / the allocation bitmap
ExfFatOnDisk(f, im) ==
    [s \in 0..(f.fat_length - 1) |-> BBytes(SecOf(im, f.fs_start + f.fat_offset + s))]
ExfBitmapOnDisk(f, im) ==
    [s \in 0..(CeilDiv(Len(f.bitmap), f.cluster_size) * f.spc - 1) |->
        BBytes(SecOf(im, f.fs_start + ExfClusterToSector(f, f.bitmap_cluster) + s))]
\* the same sectors as the caches have them
ExfFatCached(f) ==
    [s \in 0..(f.fat_length - 1) |->
        BBytes(BPad(BSlice(Lit(f.fat_cache), s * SECTOR_SIZE, SECTOR_SIZE), SECTOR_SIZE))]
ExfBitmapCached(f) ==
    [s \in 0..(CeilDiv(Len(f.bitmap), f.cluster_size) * f.spc - 1) |->
        BBytes(BPad(BSlice(Lit(f.bitmap), s * SECTOR_SIZE, SECTOR_SIZE), SECTOR_SIZE))]
\* the bytes of cluster c of the exFAT volume, as the image has them
ExfClusterOnDisk(f, im, c) ==
    FoldRange(LAMBDA acc, s:
                acc \o BBytes(SecOf(im, f.fs_start + ExfClusterToSector(f, c) + s)),
              <<>>, 0, f.spc - 1)
\* the clusters of the exFAT volume that hold directory entries
ExfDirClusters(f) ==
    UNION {f.owned[i].clusters :
             i \in {j \in 1..Len(f.owned) : f.owned[j].kind \in {"root", "dir"}}}
\* the entry sets found in the bytes d of a directory cluster: a File entry
\* (0x85) and the secondary entries it counts
ExfEntrySetsOf(d) ==
    { SubSeq(d, i * 32 + 1, Min(Len(d), (i + 1 + d[i * 32 + 2]) * 32)) :
        i \in {j \in 0..(Len(d) \div 32 - 1) : d[j * 32 + 1] = ENTRY_FILE} }
\* the name an entry set carries in its FileName entries: NameLength code units
ExfNameOfSet(es) ==
    [ci \in 1..es[32 + 4] |->
        UnpackLE(es, (2 + (ci - 1) \div 15) * 32 + 2 + ((ci - 1) % 15) * 2, 2)]
\* the up-case table the volume carries: the entry 0x82 of the root directory
\* names its cluster and length; a code unit past the table maps to itself
ExfUpcaseOnDisk(f, im) ==
    With(ExfClusterOnDisk(f, im, f.root_cluster), LAMBDA root:
        With(CHOOSE j \in 0..(Len(root) \div 32 - 1) : root[j * 32 + 1] = ENTRY_UPCASE,
             LAMBDA j:
                SubSeq(ExfClusterOnDisk(f, im, UnpackLE(root, j * 32 + 20, 4)),
                       1, UnpackLE(root, j * 32 + 24, 4))))
\* total_sectors of a UEFI image
GptTotalSectors == (args.image_size * 1024 * 1024) \div SECTOR_SIZE
\* the GPT header sector at an LBA of the image
GptHeaderOnDisk(im, lba) == BBytes(SecOf(im, lba))
\* the 128 x 128 bytes of a partition entry array that starts at an LBA
GptEntriesOnDisk(im, lba) ==
    FoldRange(LAMBDA acc, k: acc \o BBytes(SecOf(im, lba + k)), <<>>, 0,
              (GPT_ENTRY_COUNT * GPT_ENTRY_SIZE) \div SECTOR_SIZE - 1)
\* partition entry k (from 0) of the primary entry array: its first and last LBA
GptPartitionOnDisk(im, k) ==
    With(BBytes(SecOf(im, 2 + (k * GPT_ENTRY_SIZE) \div SECTOR_SIZE)), LAMBDA sec:
        [first_lba |-> UnpackLE(sec, ((k * GPT_ENTRY_SIZE) % SECTOR_SIZE) + 32, 4),
         last_lba |-> UnpackLE(sec, ((k * GPT_ENTRY_SIZE) % SECTOR_SIZE) + 40, 4)])
\* create_gpt has written both copies
GptWritten == mode = "uefi" /\ image # NoImage /\ "gpt_backup" \in DOMAIN image.log
\* the 12 sectors of the boot region of the exFAT volume that starts at
\* sector base of the volume, as the image has them
ExfBootRegionOnDisk(f, im, base) ==
    FoldRange(LAMBDA acc, s: acc \o BBytes(SecOf(im, f.fs_start + base + s)),
              <<>>, 0, 11)
\* one step of the 32-bit rotate-right-by-1 checksum, on <<hi, lo>> halves
Ror32Add(c, b) ==
    With((c[2] \div 2) + (c[1] % 2) * 32768 + b, LAMBDA sum:
        <<((c[1] \div 2) + (c[2] % 2) * 32768 + (sum \div 65536)) % 65536,
          sum % 65536>>)
\* the boot checksum a reader computes over sectors 0-10 of a boot region,
\* VolumeFlags (106, 107) and PercentInUse (112) left out
BootChecksumOf(region) ==
    FoldRange(LAMBDA c, i: IF i \in {107, 108, 113} THEN c ELSE Ror32Add(c, region[i]),
              <<0, 0>>, 1, 11 * SECTOR_SIZE)
\* one step of the 16-bit rotate-right-by-1 checksum
Ror16Add(h, b) == ((h % 2) * 32768 + (h \div 2) + b) % 65536
\* the SetChecksum a reader computes: every byte but those of the field itself
SetChecksumOf(es) ==
    FoldRange(LAMBDA c, i: IF i \in {3, 4} THEN c ELSE Ror16Add(c, es[i]),
              0, 1, Len(es))
\* the NameHash a reader computes with the up-case table `table`
NameHashOf(name, table) ==
    FoldRange(LAMBDA h, k:
                With(IF 2 * name[k] + 2 <= Len(table)
                     THEN UnpackLE(table, 2 * name[k], 2) ELSE name[k],
                     LAMBDA up: Ror16Add(Ror16Add(h, up % 256), up \div 256)),
              0, 1, Len(name))
\* the sector range [from, to) assigned to a component of a BIOS / UEFI image
AssignedSectors(who) ==
    LET total == (args.image_size * 1024 * 1024) \div SECTOR_SIZE
    IN  CASE who = "stage1" -> <<0, 1>>
          [] who = "stage2" -> <<1, KERNEL_START_SECTOR>>
          [] who = "kernel" -> <<KERNEL_START_SECTOR, args.fs_start>>
          [] who = "mbr" -> <<0, 1>>
          [] who = "gpt_primary" -> <<1, 34>>
          [] who = "fat16" -> <<ESP_START, ESP_START + ESP_SECTORS>>
          [] who = "gpt_backup" -> <<total - 33, total>>
          [] OTHER -> IF mode = "bios" THEN <<args.fs_start, total>>
                      ELSE <<ESP_START + ESP_SECTORS, total - 33>>

-----------------------------------------------------------------------------
(* The claims *)

\* C1: in BIOS mode, with k = ceil(len(kernel) / 512), the run fails on the
\* overlap check exactly when 64 + k > fs_start, and it fails before the image
\* buffer is created or anything is written.
C1_OverlapCheck ==
    (mode = "bios" /\ locals.has_kernel /\ pc # "bios_layout") =>
        LET k == CeilDiv(BLen(locals.kernel), SECTOR_SIZE)
        IN  /\ (64 + k > args.fs_start) <=> (pc = "failed" /\ err = "LayoutOverlap")
            /\ err = "LayoutOverlap" => (image = NoImage /\ out_writes = <<>>)
\* a kernel of 100 sectors and fs_start = 163: the check has failed
C1_Witness ==
    /\ mode = "bios" /\ pc = "failed" /\ err = "LayoutOverlap"
    /\ CeilDiv(BLen(locals.kernel), SECTOR_SIZE) = 100 /\ args.fs_start = 163

\* C2: in every mode the output file is written exactly once, as the last
\* step, after formatting, population and the exFAT flush; a run that aborts
\* never writes it.
C2_OutputWrittenOnceLast ==
    /\ Len(out_writes) <= 1
    /\ out_writes # <<>> =>
          /\ pc = "done" /\ err = "" /\ stack = <<>>
          /\ out_writes[1].len = image.len
          /\ mode \in {"bios", "uefi"} => exf.flushes = 1
    /\ (pc = "done" /\ mode \in {"bios", "uefi", "iso"}) => Len(out_writes) = 1
    /\ (pc = "failed" \/ err # "") => out_writes = <<>>
\* an ISO run over a sysroot has ended and written its image
C2_Witness ==
    /\ mode = "iso" /\ pc = "done" /\ Len(out_writes) = 1
    /\ DOMAIN iso.files # {}

\* C3: every byte a component writes lies in the sector range assigned to
\* that component (BIOS: stage 1 sector 0, stage 2 sectors 1-63, kernel from
\* 64 up to fs_start, exFAT from fs_start; UEFI: MBR 0, primary GPT 1-33, ESP
\* 2048-8191, exFAT from 8192, backup GPT the last 33 sectors).
C3_WritesStayInRange ==
    (mode \in {"bios", "uefi"} /\ image # NoImage) =>
        \A who \in DOMAIN image.log :
            /\ image.log[who][1] >= AssignedSectors(who)[1] * SECTOR_SIZE
            /\ image.log[who][2] <= AssignedSectors(who)[2] * SECTOR_SIZE

\* C4: the cluster sets owned by distinct files, directories and exFAT
\* system objects are pairwise disjoint, and every cluster handed out is >= 2
\* (FAT16 and exFAT).
C4_ClustersDisjoint ==
    \A owned \in {IF fat.comp = "fat16" THEN fat.owned ELSE <<>>,
                  IF exf.comp = "exfat" THEN exf.owned ELSE <<>>} :
        /\ \A i, j \in 1..Len(owned) :
              i # j => owned[i].clusters \cap owned[j].clusters = {}
        /\ \A c \in AllOwned(owned) : c >= 2
\* a UEFI run over a sysroot has ended: both formatters handed out clusters
\* to directories and to files
C4_Witness ==
    /\ mode = "uefi" /\ pc = "done"
    /\ \E i, j \in 1..Len(fat.owned) : fat.owned[i].kind = "dir" /\ fat.owned[j].kind = "file"
    /\ \E i, j \in 1..Len(exf.owned) : exf.owned[i].kind = "dir" /\ exf.owned[j].kind = "file"

\* C5: for every non-empty file added through Fat16Formatter.add_file, the
\* chain of the written FAT from the file's first cluster has exactly
\* ceil(len / cluster_size) clusters, ends with the entry 0xFFFF, and the
\* clusters hold the file's bytes followed by zero padding.
C5_Fat16ReadBack ==
    fat.comp = "fat16" =>
        \A i \in 1..Len(fat.files) :
            LET file == fat.files[i]
                n == CeilDiv(BLen(file.data), fat.sectors_per_cluster * SECTOR_SIZE)
            IN  \E chain \in {FatChain(fat, image, file.first, n)} :
                    /\ Len(chain.clusters) = n
                    /\ chain.last = 65535
                    /\ \A k \in 1..n :
                          FatClusterHolds(fat, image, chain.clusters[k], file.data, k - 1)

\* C6: a FAT16 allocation of N clusters takes the N lowest never-allocated
\* numbers (from 2, increasing across calls) and writes N-1 links c -> c+1 and
\* 0xFFFF in both FAT copies; a file of n > 0 bytes gets ceil(n / cluster_size)
\* clusters, a directory one; the two FAT copies are byte-identical.
C6_Fat16Allocation ==
    fat.comp = "fat16" =>
        /\ \A i \in 1..Len(fat.owned) :
              LET o == fat.owned[i]
                  n == Cardinality(o.clusters)
              IN  /\ o.first = IF i = 1 THEN 2
                               ELSE fat.owned[i - 1].first
                                      + Cardinality(fat.owned[i - 1].clusters)
                  /\ o.clusters = o.first..(o.first + n - 1)
                  /\ o.kind = "dir" => n = 1
                  /\ \A c \in o.clusters : \A fat_idx \in 0..(fat.num_fats - 1) :
                        FatEntryOnDisk(fat, image, fat_idx, c)
                            = IF c = o.first + n - 1 THEN 65535 ELSE c + 1
        /\ \A i \in 1..Len(fat.files) :
              \E j \in 1..Len(fat.owned) :
                  /\ fat.owned[j].first = fat.files[i].first
                  /\ Cardinality(fat.owned[j].clusters)
                        = CeilDiv(BLen(fat.files[i].data),
                                  fat.sectors_per_cluster * SECTOR_SIZE)
        /\ \A s \in 0..(fat.fat_size - 1) :
              SameBytes(SecOf(image, fat.fs_start + fat.first_fat_sector + s),
                        SecOf(image, fat.fs_start + fat.first_fat_sector
                                        + fat.fat_size + s))

\* C7: the FAT16 root directory holds at most 512 entries: no root entry is
\* ever written at an index >= 512.
C7_RootDirBounded ==
    fat.comp = "fat16" =>
        /\ fat.next_root_entry <= fat.root_entry_count
        /\ fat.root_entry_count = 512

\* C8: adding an entry to a FAT16 subdirectory always ends with the entry
\* present in the directory (the chain is extended when no run of free slots
\* is found): no entry is ever left out.
C8_SubdirEntryPresent ==
    fat.comp = "fat16" => fat.warnings = <<>>

\* C9: no allocator hands out a cluster above cluster_count + 1 and nothing
\* is written past the end of the volume (FAT16 and exFAT): a run that needs
\* more clusters than there are aborts instead.
C9_CapacityRespected ==
    /\ fat.comp = "fat16" =>
          /\ \A c \in AllOwned(fat.owned) : c <= fat.total_clusters + 1
          /\ "fat16" \in DOMAIN image.log =>
                image.log["fat16"][2] <= (fat.fs_start + fat.fs_sectors) * SECTOR_SIZE
    /\ exf.comp = "exfat" =>
          /\ \A c \in AllOwned(exf.owned) : c <= exf.cluster_count + 1
          /\ "exfat" \in DOMAIN image.log =>
                image.log["exfat"][2] <= (exf.fs_start + exf.fs_sectors) * SECTOR_SIZE

\* C10, the state part: bit n of the exFAT bitmap is set iff cluster n + 2
\* was allocated; the flush happens at most once, not before population has
\* ended, and has happened when the image is persisted; after it the FAT
\* sectors and the bitmap on disk equal the caches.
C10_State ==
    exf.comp = "exfat" =>
        /\ \A n \in 0..(exf.cluster_count - 1) :
              ((exf.bitmap[n \div 8 + 1] \div (2 ^ (n % 8))) % 2 = 1)
                  <=> (n + 2 \in AllOwned(exf.owned))
        /\ \A n \in exf.cluster_count..(8 * Len(exf.bitmap) - 1) :
              (exf.bitmap[n \div 8 + 1] \div (2 ^ (n % 8))) % 2 = 0
        /\ exf.flushes <= 1
        /\ pc \in {"exfat_populate", "exfat_flush"} => exf.flushes = 0
        /\ pc \in {"persist", "done"} => exf.flushes = 1
        /\ exf.flushes = 1 =>
              /\ ExfFatOnDisk(exf, image) = ExfFatCached(exf)
              /\ ExfBitmapOnDisk(exf, image) = ExfBitmapCached(exf)
\* C10, the step part: until the flush, no step of the formatter changes the
\* FAT sectors or the bitmap on disk.
C10_Step ==
    (exf.comp = "exfat" /\ exf'.comp = "exfat" /\ exf'.flushes = 0) =>
        /\ ExfFatOnDisk(exf', image') = ExfFatOnDisk(exf', image)
        /\ exf.bitmap_cluster # 0 =>
              ExfBitmapOnDisk(exf', image') = ExfBitmapOnDisk(exf', image)
\* C10: in the exFAT formatter bit n of the bitmap is set iff cluster n + 2 is
\* allocated; FAT and bitmap changes stay in the caches until
\* flush_fat_and_bitmap, which runs exactly once, after the last allocation
\* and before the image is persisted, and leaves the FAT sectors and the
\* bitmap on disk equal to the caches.
C10_BitmapAndFlush == [](C10_State) /\ [][C10_Step]_vars
\* a run has flushed after its root directory was extended by a cluster
C10_Witness ==
    /\ exf.comp = "exfat" /\ exf.flushes = 1 /\ pc = "done"
    /\ \E i \in 1..Len(exf.owned) :
          exf.owned[i].kind = "dir" /\ exf.owned[i].first \notin exf.owned[i].clusters

\* C11: every entry set that ExFatFormatter._build_entry_set produced and the
\* formatter wrote to a directory carries a SetChecksum equal to the
\* rotate-right-by-1 checksum of all its bytes but bytes 2 and 3, and a
\* NameHash equal to the hash of its up-cased name (up-cased with the up-case
\* table init_fs formats the volume with).
C11_EntrySetChecksums ==
    (exf.comp = "exfat" /\ exf.root_cluster # 0) =>
        \E table \in {ExfUpcaseData} :
            \A c \in ExfDirClusters(exf) :
                \A es \in ExfEntrySetsOf(ExfClusterOnDisk(exf, image, c)) :
                    /\ Len(es) = (1 + es[2]) * 32
                    /\ es[32 + 1] = ENTRY_STREAM
                    /\ es[2] = 1 + (es[32 + 4] + 14) \div 15
                    /\ UnpackLE(es, 2, 2) = SetChecksumOf(es)
                    /\ UnpackLE(es, 32 + 4, 2) = NameHashOf(ExfNameOfSet(es), table)
\* a directory of the volume holds an entry set with a 255-character name in
\* lower case (17 FileName entries)
C11_Witness ==
    /\ exf.comp = "exfat" /\ exf.root_cluster # 0 /\ pc = "done"
    /\ \E c \in ExfDirClusters(exf) :
          \E es \in ExfEntrySetsOf(ExfClusterOnDisk(exf, image, c)) :
              es[32 + 4] = 255 /\ es[2] = 18 /\ ExfNameOfSet(es)[1] = 97

\* C12: once write_boot_sector and init_fs have run, and after every later
\* operation, every 32-bit word of checksum sector 11 of the exFAT volume
\* equals the checksum recomputed over the on-disk sectors 0-10 (offsets 106,
\* 107 and 112 left out), and the Backup Boot Region (sectors 12-23) is
\* byte-identical to the Main Boot Region (sectors 0-11).
C12_BootRegionChecksum ==
    (exf.comp = "exfat" /\ exf.root_cluster # 0) =>
        \E main \in {ExfBootRegionOnDisk(exf, image, 0)} :
            /\ \E cs \in {BootChecksumOf(main)} :
                  \A i \in 0..(SECTOR_SIZE \div 4 - 1) :
                      /\ UnpackLE(main, 11 * SECTOR_SIZE + 4 * i, 2) = cs[2]
                      /\ UnpackLE(main, 11 * SECTOR_SIZE + 4 * i + 2, 2) = cs[1]
            /\ main = ExfBootRegionOnDisk(exf, image, 12)
            /\ UnpackLE(main, 96, 4) = exf.root_cluster
\* a BIOS or UEFI run has written its image, with files on the exFAT volume
C12_Witness ==
    /\ exf.comp = "exfat" /\ exf.root_cluster = 4 /\ pc = "done"
    /\ out_writes # <<>> /\ Len(exf.owned) > 3
    /\ SubSeq(ExfBootRegionOnDisk(exf, image, 0), 4, 8) = <<69, 88, 70, 65, 84>>

\* C13: for both GPT headers written by create_gpt, CRC32 of the first 92
\* header bytes with the CRC field (offset 16) zeroed equals the stored header
\* CRC, and CRC32 of the entry array the header points at, as it is on disk,
\* equals the entries CRC stored in the header; looked at when create_gpt
\* has returned and when the image is complete.  (CRC32 is the standard one:
\* its value on "123456789" is 0xCBF43926.)
C13_GptCrcs ==
    /\ Crc32(<<49, 50, 51, 52, 53, 54, 55, 56, 57>>) = <<52212, 14630>>
    /\ (GptWritten /\ pc \in {"uefi_esp", "persist", "done"}) =>
          \A lba \in {1, GptTotalSectors - 1} :
              \E hdr \in {GptHeaderOnDisk(image, lba)} :
                  /\ SubSeq(hdr, 17, 20)
                        = Pack32(Crc32(Splice(SubSeq(hdr, 1, GPT_HEADER_SIZE), 16,
                                              <<0, 0, 0, 0>>)))
                  /\ SubSeq(hdr, 89, 92)
                        = Pack32(Crc32(GptEntriesOnDisk(image, UnpackLE(hdr, 72, 4))))
\* a UEFI run has written its image: both headers carry the signature and
\* two partitions are declared
C13_Witness ==
    /\ GptWritten /\ pc = "done" /\ out_writes # <<>>
    /\ \A lba \in {1, GptTotalSectors - 1} :
          SubSeq(GptHeaderOnDisk(image, lba), 1, 8) = <<69, 70, 73, 32, 80, 65, 82, 84>>
    /\ UnpackLE(GptEntriesOnDisk(image, 2), 128 + 32, 4) = ESP_START + ESP_SECTORS

\* the LBA fields of the two GPT headers and the two entry arrays, as C14
\* states them
GptHeadersPlaced ==
    \E total \in {GptTotalSectors} :
        \E p \in {GptHeaderOnDisk(image, 1)}, b \in {GptHeaderOnDisk(image, total - 1)} :
            /\ SubSeq(p, 25, 32) = PackLE(1, 8)
            /\ SubSeq(p, 33, 40) = PackLE(total - 1, 8)
            /\ SubSeq(p, 73, 80) = PackLE(2, 8)
            /\ SubSeq(b, 25, 32) = PackLE(total - 1, 8)
            /\ SubSeq(b, 33, 40) = PackLE(1, 8)
            /\ SubSeq(b, 73, 80) = PackLE(total - 1 - 32, 8)
            /\ GptEntriesOnDisk(image, 2) = GptEntriesOnDisk(image, total - 1 - 32)
\* the byte offsets (from 1) at which the two headers agree, all but `except`
GptHeadersAgreeBut(except) ==
    \A i \in (1..SECTOR_SIZE) \ except :
        GptHeaderOnDisk(image, 1)[i] = GptHeaderOnDisk(image, GptTotalSectors - 1)[i]
\* C14, as amended: create_gpt writes the primary header at LBA 1 (my_lba 1,
\* alt_lba total_sectors-1, entries at LBA 2) and the backup header at LBA
\* total_sectors-1 (my_lba total_sectors-1, alt_lba 1, entries at LBA
\* total_sectors-1-32), with the two entry arrays byte-identical; the two
\* headers are byte-identical except for the my_lba, alt_lba and
\* partition_entries_lba fields and the header CRC32 field, which covers them.
C14_GptHeadersAndEntries ==
    GptWritten =>
        /\ GptHeadersPlaced
        /\ GptHeadersAgreeBut((17..20) \cup (25..40) \cup (73..80))
\* C14, as stated: the same, with the two headers byte-identical except for
\* the my_lba, alt_lba and partition_entries_lba fields.
C14_AsStated ==
    GptWritten =>
        /\ GptHeadersPlaced
        /\ GptHeadersAgreeBut((25..40) \cup (73..80))
\* create_gpt has just returned in a run with a 5 MiB image: the backup
\* header is in the last sector
C14_Witness ==
    /\ GptWritten /\ pc = "uefi_esp" /\ GptTotalSectors = 10240
    /\ UnpackLE(GptHeaderOnDisk(image, 10239), 24, 4) = 10239

\* C15: whenever create_uefi_image completes, the two partitions its GPT
\* declares (ESP at LBA 2048..8191, data at LBA 8192..total_sectors-34) have
\* first_lba <= last_lba, lie in [first_usable_lba, last_usable_lba] =
\* [34, total_sectors-34], overlap neither each other nor the primary or the
\* backup GPT, and the exFAT formatter was given the data partition: its
\* first sector and its (positive) number of sectors.
C15_UefiPartitions ==
    (mode = "uefi" /\ pc = "done") =>
        \E total \in {GptTotalSectors}, hdr \in {GptHeaderOnDisk(image, 1)},
           esp \in {GptPartitionOnDisk(image, 0)}, data \in {GptPartitionOnDisk(image, 1)} :
            /\ UnpackLE(hdr, 40, 4) = 34 /\ UnpackLE(hdr, 48, 4) = total - 34
            /\ esp = [first_lba |-> 2048, last_lba |-> 8191]
            /\ data = [first_lba |-> 8192, last_lba |-> total - 34]
            /\ \A part \in {esp, data} :
                  /\ part.first_lba <= part.last_lba
                  /\ 34 <= part.first_lba /\ part.last_lba <= total - 34
                  /\ part.first_lba > 33 /\ part.last_lba < total - 33
            /\ esp.last_lba < data.first_lba
            /\ GptPartitionOnDisk(image, 2) = [first_lba |-> 0, last_lba |-> 0]
            /\ exf.fs_start = data.first_lba
            /\ exf.fs_sectors = data.last_lba - data.first_lba + 1
            /\ exf.fs_sectors > 0
\* a UEFI run with a 6 MiB image has completed
C15_Witness ==
    /\ mode = "uefi" /\ pc = "done" /\ out_writes # <<>> /\ args.image_size = 6
    /\ GptPartitionOnDisk(image, 1).last_lba = 12254

\* the stage-2 copy of the image starts at sector 1: its 16-bit field at
\* offset 2 and its 32-bit field at offset 4
Stage2SectorsField(im) == UnpackLE(ReadBytes(im, SECTOR_SIZE + 2, 2), 0, 2)
Stage2LbaField(im) == UnpackLE(ReadBytes(im, SECTOR_SIZE + 4, 4), 0, 4)
\* the image has the bytes of kernel from 512-byte sector lba on
KernelBytesAt(im, lba, kernel) ==
    \A s \in 0..(CeilDiv(BLen(kernel), SECTOR_SIZE) - 1) :
        With(Min(SECTOR_SIZE, BLen(kernel) - s * SECTOR_SIZE), LAMBDA n:
            SameBytes(BSlice(SecOf(im, lba + s), 0, n),
                      BSlice(kernel, s * SECTOR_SIZE, n)))
\* the image carries a stage-2 copy
Stage2Stored == mode \in {"bios", "iso"} /\ image # NoImage /\ "stage2" \in DOMAIN image.log
\* where the layout puts the kernel, in 512-byte sectors: sector 64 of a BIOS
\* image, on a CD the first CD sector after the directory extents and not
\* before CD sector 32
KernelLbaOfLayout ==
    IF mode = "bios" THEN 64
    ELSE 4 * Max(32, 22 + Cardinality(DOMAIN iso.dirs))
\* the two fields of the stage-2 copy describe the kernel of the image
Stage2FieldsRight ==
    /\ Stage2SectorsField(image) = CeilDiv(BLen(locals.kernel), SECTOR_SIZE)
    /\ Stage2LbaField(image) = KernelLbaOfLayout
    /\ KernelBytesAt(image, Stage2LbaField(image), locals.kernel)
\* the stage-2 blob changes in one step only: the one that has checked the
\* layout of a BIOS image; on a CD the blob is patched inside write_image,
\* which has computed the layout when it stores the copy
Stage2PatchedAfterLayout ==
    /\ locals.stage2 # locals'.stage2 =>
          \/ pc \in {"create_bios_image", "create_iso_image"} /\ locals = NoLocals
          \/ pc = "bios_layout" /\ pc' = "bios_assemble"
    /\ (image = NoImage /\ image' # NoImage /\ mode = "iso") => iso'.layout # <<>>

\* C16: the stage-2 loader is patched only once the layout is final, and in
\* every image that carries a stage-2 copy of at least 8 bytes the 16-bit
\* field at offset 2 of the copy is the kernel's length in 512-byte sectors
\* and the 32-bit field at offset 4 is the 512-byte-sector LBA where the
\* kernel bytes are: 64 in BIOS mode, four times the kernel's CD sector in ISO
\* mode
C16_Stage2Patched ==
    /\ [](Stage2Stored /\ args.stage2 >= 8 => Stage2FieldsRight)
    /\ [][Stage2PatchedAfterLayout]_vars
\* C16 as stated, for every stage-2 blob the run accepts
C16_AsStated == Stage2Stored => Stage2FieldsRight
\* an ISO image whose kernel was shifted past CD sector 32 was written
C16_Witness ==
    /\ mode = "iso" /\ pc = "done" /\ out_writes # <<>>
    /\ Stage2Stored /\ args.stage2 >= 8
    /\ Stage2LbaField(image) = 136
    /\ Stage2SectorsField(image) = 100

\* the Validation Entry: the first 32 bytes of the Boot Catalog, CD sector 19
ValidationEntryOnDisk(im) == ReadBytes(im, 19 * ISO_BLOCK_SIZE, 32)
\* the sum of the little-endian 16-bit words of an even number of bytes
RECURSIVE WordSum(_)
WordSum(b) ==
    IF Len(b) < 2 THEN 0 ELSE b[1] + 256 * b[2] + WordSum(SubSeq(b, 3, Len(b)))

\* C17: in every ISO image the 32-byte Validation Entry at the start of the
\* Boot Catalog has header ID 1, platform ID 0, the key bytes 0x55 0xAA at
\* offsets 30-31, and its sixteen little-endian 16-bit words (the checksum at
\* offsets 28-29 among them) sum to 0 modulo 65536
C17_ValidationEntry ==
    (mode = "iso" /\ image # NoImage) =>
        \E ve \in {ValidationEntryOnDisk(image)} :
            /\ Len(ve) = 32
            /\ ve[1] = 1 /\ ve[2] = 0
            /\ ve[31] = 85 /\ ve[32] = 170
            /\ WordSum(ve) % 65536 = 0
\* an ISO image was written whose Validation Entry has the checksum 0xAB55
C17_Witness ==
    /\ mode = "iso" /\ pc = "done" /\ out_writes # <<>>
    /\ UnpackLE(ValidationEntryOnDisk(image), 28, 2) = 43861
    /\ WordSum(ValidationEntryOnDisk(image)) = 2 * 65536

\* the PT_LOAD program headers of an ELF file
LoadSegments(elf) == SelectSeq(elf.phdrs, LAMBDA ph: ph.p_type = PT_LOAD)
\* a valid set of PT_LOAD segments: there is one, each has its file bytes
\* inside the file and not more of them than memory, and no two overlap in
\* memory
ValidLoadSegments(elf) ==
    LET segs == LoadSegments(elf)
    IN  /\ segs # <<>>
        /\ \A k \in 1..Len(segs) :
              /\ segs[k].p_filesz <= segs[k].p_memsz
              /\ segs[k].p_offset + segs[k].p_filesz <= elf.len
        /\ \A j, k \in 1..Len(segs) :
              j # k => \/ segs[j].p_vaddr + segs[j].p_memsz <= segs[k].p_vaddr
                       \/ segs[k].p_vaddr + segs[k].p_memsz <= segs[j].p_vaddr
\* flat is the load image of the segments of elf, from the lowest vaddr on
IsLoadImage(elf, flat) ==
    LET segs == LoadSegments(elf)
        base == CHOOSE a \in {segs[k].p_vaddr : k \in 1..Len(segs)} :
                    \A k \in 1..Len(segs) : a <= segs[k].p_vaddr
        end == CHOOSE a \in {segs[k].p_vaddr + segs[k].p_memsz : k \in 1..Len(segs)} :
                    \A k \in 1..Len(segs) : a >= segs[k].p_vaddr + segs[k].p_memsz
        InFile(i) == \E k \in 1..Len(segs) :
                        /\ segs[k].p_vaddr - base <= i
                        /\ i < segs[k].p_vaddr - base + segs[k].p_filesz
        InMem(i) == \E k \in 1..Len(segs) :
                        /\ segs[k].p_vaddr - base <= i
                        /\ i < segs[k].p_vaddr - base + segs[k].p_memsz
    IN  /\ Len(flat) = end - base
        /\ \A k \in 1..Len(segs) : \A i \in 0..(segs[k].p_filesz - 1) :
              /\ segs[k].p_vaddr - base + i < Len(flat)
              /\ flat[segs[k].p_vaddr - base + i + 1]
                    = BlobByte(elf.blob, segs[k].p_offset + i)
        /\ \A i \in 0..(Len(flat) - 1) :
              (InMem(i) /\ ~InFile(i)) => flat[i + 1] = 0

\* C18: whenever a flattener has produced a blob from an ELF file with a
\* valid set of PT_LOAD segments, the blob has length max(vaddr+memsz) -
\* min(vaddr), holds every segment's file bytes at vaddr - min(vaddr), and is
\* zero where a segment's memory is not covered by file bytes
C18_FlatBlob ==
    (mode \in {"elf2bin", "elf_to_flat_binary"} /\ pc = "done"
        /\ ValidLoadSegments(args.elf)) =>
            IsLoadImage(args.elf, locals.flat)
\* C18 for elf2bin.py alone
Elf2BinFlatBlob ==
    (mode = "elf2bin" /\ pc = "done" /\ ValidLoadSegments(args.elf)) =>
        IsLoadImage(args.elf, locals.flat)
\* C18 for elf_to_flat_binary, when every segment has file bytes, physical
\* and virtual addresses agree and the lowest segment is at base_paddr
ElfToFlatBlobAtBase ==
    LET segs == LoadSegments(args.elf)
        Plain(k) == /\ segs[k].p_filesz > 0
                    /\ segs[k].p_vaddr = segs[k].p_paddr
                    /\ segs[k].p_paddr >= args.base_paddr
        AtBase(k) == segs[k].p_paddr = args.base_paddr
    IN  (/\ mode = "elf_to_flat_binary" /\ pc = "done"
         /\ ValidLoadSegments(args.elf)
         /\ (\A k \in 1..Len(segs) : Plain(k))
         /\ (\E k \in 1..Len(segs) : AtBase(k))) =>
            IsLoadImage(args.elf, locals.flat)

\* the flattener has ended with an error, without a blob
FlattenerFailed == pc = "failed" /\ err # "" /\ locals.flat = <<>> /\ out_writes = <<>>
\* C19: a flattener fails, and produces no blob, when the magic is wrong,
\* when the class is neither 1 nor 2 and when there is no PT_LOAD segment,
\* and it does not fail otherwise
C19_FlattenerErrors ==
    (mode \in {"elf2bin", "elf_to_flat_binary"} /\ pc \in {"done", "failed"}) =>
        (FlattenerFailed <=>
            \/ ~args.elf.magic
            \/ args.elf.ei_class \notin {1, 2}
            \/ LoadSegments(args.elf) = <<>>)
\* elf2bin.py fails exactly when the magic is wrong or no segment is PT_LOAD
Elf2BinErrors ==
    (mode = "elf2bin" /\ pc \in {"done", "failed"}) =>
        (FlattenerFailed <=> (~args.elf.magic \/ LoadSegments(args.elf) = <<>>))
\* elf_to_flat_binary fails in the three cases, and also when no PT_LOAD
\* segment has file bytes or all of them end below base_paddr
ElfToFlatErrors ==
    (mode = "elf_to_flat_binary" /\ pc \in {"done", "failed"}) =>
        /\ pc = "failed" => FlattenerFailed
        /\ (~args.elf.magic \/ args.elf.ei_class \notin {1, 2}
               \/ LoadSegments(args.elf) = <<>>) => FlattenerFailed

\* the inputs of the run that the claim calls missing or of a wrong size
MissingInput ==
    \/ mode \in {"bios", "iso"} /\ (args.stage1 = -1 \/ args.stage2 = -1 \/ args.kernel = "")
    \/ mode = "uefi" /\ args.bootloader = -1
WrongStageSize ==
    /\ mode \in {"bios", "iso"}
    /\ args.stage1 # -1 /\ args.stage2 # -1 /\ args.kernel # ""
    /\ (args.stage1 # 512 \/ args.stage2 > 63 * 512)
\* a run with such inputs has no image buffer and no output, and once it has
\* ended it has ended with the matching error
InputsRejected ==
    (mode \in {"bios", "iso", "uefi"} /\ (MissingInput \/ WrongStageSize)) =>
        /\ image = NoImage /\ out_writes = <<>>
        /\ exf = NoFmt /\ fat = NoFmt /\ iso = NoFmt
        /\ pc \in {"main", "create_bios_image", "create_iso_image", "create_uefi_image",
                   "failed"}
        /\ pc = "failed" =>
              err = (IF MissingInput THEN "MissingRequiredInput"
                     ELSE IF args.stage1 # 512 THEN "SizeConstraintViolation: stage1"
                     ELSE "SizeConstraintViolation: stage2")
\* the step that reads such inputs ends the run
InputsRejectedStep ==
    (/\ mode \in {"bios", "iso", "uefi"} /\ (MissingInput \/ WrongStageSize)
     /\ pc \in {"create_bios_image", "create_iso_image", "create_uefi_image"}) =>
        pc' = "failed"
\* a stage 1 of 512 bytes and a stage 2 of at most 63 sectors are no size
\* error, and the run goes on to read the kernel
StageSizesAccepted ==
    (/\ mode \in {"bios", "iso"}
     /\ args.stage1 = 512 /\ args.stage2 >= 0 /\ args.stage2 <= 32256
     /\ args.kernel # "") =>
        /\ err \notin {"MissingRequiredInput", "SizeConstraintViolation: stage1",
                       "SizeConstraintViolation: stage2"}
        /\ (pc = "failed" /\ image = NoImage /\ mode = "bios" /\ exf = NoFmt) =>
               err \in {"LayoutOverlap", "MalformedInput: not a valid ELF file",
                        "MalformedInput: unknown ELF class",
                        "MalformedInput: no PT_LOAD segments"}

\* C20: a BIOS or ISO run whose stage 1 is not 512 bytes long, whose stage 2
\* is longer than 63 x 512 bytes, or that lacks the stage-1, stage-2 or
\* kernel path, and a UEFI run without a bootloader, ends with an error
\* before an image buffer exists; a stage 1 of 512 bytes with a stage 2 of at
\* most 32256 bytes is accepted
C20_InputChecks ==
    /\ [](InputsRejected /\ StageSizesAccepted)
    /\ [][InputsRejectedStep]_vars
\* an ISO run was ended because of a stage 2 of 63 sectors and one byte
C20_Witness ==
    /\ mode = "iso" /\ pc = "failed" /\ args.stage2 = 32257
    /\ err = "SizeConstraintViolation: stage2"
    /\ image = NoImage /\ out_writes = <<>>

-----------------------------------------------------------------------------
(* The directory trees of the image, read as a consumer reads them *)

\* the regular files and directories of host directory path whose names do
\* not start with '.'
HostVisible(sysroot, path) ==
    { x \in Tree(sysroot) :
        /\ Len(x.path) = Len(path) + 1
        /\ SubSeq(x.path, 1, Len(path)) = path
        /\ x.kind \in {"file", "dir"}
        /\ x.path[Len(x.path)][1] # 46 }
\* the host directories that are mirrored: the sysroot and every directory
\* below it with no '.' name on its path
HostVisibleDirs(sysroot) ==
    { <<>> } \cup { e.path : e \in { x \in Tree(sysroot) :
                                      /\ x.kind = "dir"
                                      /\ \A i \in 1..Len(x.path) : x.path[i][1] # 46 } }
\* what a FAT16 or exFAT directory is to list for host directory path: the
\* names as they are
HostEntries(sysroot, path) ==
    { [name |-> e.path[Len(e.path)], is_dir |-> e.kind = "dir"] :
        e \in HostVisible(sysroot, path) }
\* what an ISO 9660 directory is to list: upper-case identifiers, those of
\* files with a '.' and the version ";1"
HostIsoEntries(sysroot, path) ==
    { [name |-> IF e.kind = "dir" THEN Upper(e.path[Len(e.path)])
                ELSE Upper(e.path[Len(e.path)])
                       \o (IF LastDot(e.path[Len(e.path)]) = 0 THEN <<46>> ELSE <<>>)
                       \o <<59, 49>>,
       is_dir |-> e.kind = "dir"] : e \in HostVisible(sysroot, path) }
\* a directory listing read from the image (a sequence of [name, is_dir,
\* first]) holds the expected entries, each once
ListingMatches(listing, expected) ==
    /\ { [name |-> listing[i].name, is_dir |-> listing[i].is_dir] :
           i \in 1..Len(listing) } = expected
    /\ Len(listing) = Cardinality(expected)

\* the four bytes of the FAT entry of cluster c in the exFAT volume of the
\* image
ExfFatEntryOnDisk(f, im, c) ==
    ReadBytes(im, (f.fs_start + f.fat_offset) * SECTOR_SIZE + c * 4, 4)
\* the clusters of the chain that starts at first, by the FAT of the image;
\* last is the entry that ended it
ExfChainOnDisk(f, im, first) ==
    FoldRange(LAMBDA st, k:
                IF st.done THEN st
                ELSE With(ExfFatEntryOnDisk(f, im, st.cur), LAMBDA e:
                        [clusters |-> Append(st.clusters, st.cur),
                         cur |-> IF Len(e) = 4 /\ e[4] = 0 /\ e[3] = 0
                                 THEN UnpackLE(e, 0, 2) ELSE 0,
                         last |-> e,
                         done |-> ~(Len(e) = 4 /\ e[4] = 0 /\ e[3] = 0
                                       /\ UnpackLE(e, 0, 2) >= 2
                                       /\ UnpackLE(e, 0, 2) < f.cluster_count + 2)]),
              [clusters |-> <<>>, cur |-> first, last |-> <<>>, done |-> FALSE],
              1, f.cluster_count)
\* the bytes of a directory of the exFAT volume: its clusters in chain order
ExfDirOnDisk(f, im, first) ==
    With(ExfChainOnDisk(f, im, first).clusters, LAMBDA chain:
        FoldRange(LAMBDA acc, k: acc \o ExfClusterOnDisk(f, im, chain[k]),
                  <<>>, 1, Len(chain)))
\* the entry sets found in directory bytes d, in slot order: in all of its
\* slots, or as a reader finds them that stops at the first end-of-directory
\* slot (type 0)
ExfListing(d, stop_at_end) ==
    FoldRange(LAMBDA st, j:
                IF st.ended THEN st
                ELSE IF d[j * 32 + 1] = 0 THEN [st EXCEPT !.ended = stop_at_end]
                ELSE IF d[j * 32 + 1] = ENTRY_FILE
                        /\ (j + 1 + d[j * 32 + 2]) * 32 <= Len(d)
                THEN [st EXCEPT !.sets = Append(@,
                         [name |-> ExfNameOfSet(SubSeq(d, j * 32 + 1,
                                                       (j + 1 + d[j * 32 + 2]) * 32)),
                          is_dir |-> (d[j * 32 + 5] \div ATTR_DIRECTORY) % 2 = 1,
                          first |-> UnpackLE(d, j * 32 + 32 + 20, 2),
                          slot |-> j])]
                ELSE st,
              [sets |-> <<>>, ended |-> FALSE], 0, Len(d) \div 32 - 1).sets
\* the first cluster of the image directory that host directory path is
\* mirrored to, 0 when the image has no such directory
RECURSIVE ExfDirOf(_, _, _)
ExfDirOf(f, im, path) ==
    IF path = <<>> THEN UnpackLE(ReadBytes(im, f.fs_start * SECTOR_SIZE + 96, 4), 0, 2)
    ELSE With(ExfDirOf(f, im, SubSeq(path, 1, Len(path) - 1)), LAMBDA parent:
            IF parent = 0 THEN 0
            ELSE With(ExfListing(ExfDirOnDisk(f, im, parent), FALSE), LAMBDA l:
                    With({i \in 1..Len(l) : l[i].name = path[Len(path)] /\ l[i].is_dir},
                         LAMBDA hits: IF hits = {} THEN 0
                                      ELSE l[CHOOSE i \in hits : TRUE].first)))
\* the exFAT volume of the image mirrors the sysroot
ExfMirrors(f, im, sysroot) ==
    \A path \in HostVisibleDirs(sysroot) :
        With(ExfDirOf(f, im, path), LAMBDA c:
            /\ c # 0
            /\ ListingMatches(ExfListing(ExfDirOnDisk(f, im, c), FALSE),
                              HostEntries(sysroot, path)))

\* the bytes of a directory of the FAT16 volume: the root directory region
\* for first = 0, else the clusters of the chain from first
FatDirOnDisk(f, im, first) ==
    IF first = 0
    THEN ReadBytes(im, (f.fs_start + f.first_root_dir_sector) * SECTOR_SIZE,
                   f.root_dir_sectors * SECTOR_SIZE)
    ELSE With(FatChain(f, im, first, f.total_clusters).clusters, LAMBDA chain:
            FoldRange(LAMBDA acc, k:
                        acc \o ReadBytes(im, (f.fs_start
                                                + FatClusterToSector(f, chain[k]))
                                                   * SECTOR_SIZE,
                                         f.sectors_per_cluster * SECTOR_SIZE),
                      <<>>, 1, Len(chain)))
\* the 13 code units of the LFN entry at slot j of directory bytes d
LfnUnits(d, j) ==
    [k \in 1..13 |->
        UnpackLE(d, j * 32 + (IF k <= 5 THEN 1 + (k - 1) * 2
                              ELSE IF k <= 11 THEN 14 + (k - 6) * 2
                              ELSE 28 + (k - 12) * 2), 2)]
\* a name without its trailing spaces
RECURSIVE RStrip(_)
RStrip(str) ==
    IF str # <<>> /\ str[Len(str)] = 32 THEN RStrip(SubSeq(str, 1, Len(str) - 1)) ELSE str
\* the name an 8.3 entry gives when no LFN entries precede it
NameOf83(name83) ==
    With(RStrip(SubSeq(name83, 9, 11)), LAMBDA ext:
        RStrip(SubSeq(name83, 1, 8)) \o (IF ext = <<>> THEN <<>> ELSE <<46>> \o ext))
\* the entries found in the slots of directory bytes d, in slot order: every
\* 8.3 entry but the volume label, "." and "..", named by the LFN entries
\* before it (up to the 0x0000 terminator) when there are any
FatListing(d) ==
    FoldRange(LAMBDA st, j:
                LET first_byte == d[j * 32 + 1]
                    attr == d[j * 32 + 12]
                    name83 == SubSeq(d, j * 32 + 1, j * 32 + 11)
                    zeros == {k \in 1..Len(st.lfn) : st.lfn[k] = 0}
                    long == IF zeros = {} THEN st.lfn
                            ELSE SubSeq(st.lfn, 1,
                                        (CHOOSE k \in zeros : \A m \in zeros : k <= m) - 1)
                IN  IF first_byte = 0 \/ first_byte = 229 THEN [st EXCEPT !.lfn = <<>>]
                    ELSE IF attr = 15
                    THEN [st EXCEPT !.lfn = LfnUnits(d, j) \o @, !.n = @ + 1]
                    ELSE IF (attr \div 8) % 2 = 1 \/ first_byte = 46
                    THEN [st EXCEPT !.lfn = <<>>, !.n = 0]
                    ELSE [sets |-> Append(st.sets,
                                      [name |-> IF st.lfn = <<>> THEN NameOf83(name83)
                                                ELSE long,
                                       is_dir |-> (attr \div 16) % 2 = 1,
                                       first |-> UnpackLE(d, j * 32 + 26, 2),
                                       name83 |-> name83,
                                       lfn_entries |-> st.n,
                                       slot |-> j]),
                          lfn |-> <<>>, n |-> 0],
              [sets |-> <<>>, lfn |-> <<>>, n |-> 0], 0, Len(d) \div 32 - 1).sets
\* the first cluster of the FAT16 directory that host directory path is
\* mirrored to (0: the root directory), -1 when the image has none
RECURSIVE FatDirOf(_, _, _)
FatDirOf(f, im, path) ==
    IF path = <<>> THEN 0
    ELSE With(FatDirOf(f, im, SubSeq(path, 1, Len(path) - 1)), LAMBDA parent:
            IF parent = -1 THEN -1
            ELSE With(FatListing(FatDirOnDisk(f, im, parent)), LAMBDA l:
                    With({i \in 1..Len(l) : l[i].name = path[Len(path)] /\ l[i].is_dir},
                         LAMBDA hits: IF hits = {} THEN -1
                                      ELSE l[CHOOSE i \in hits : TRUE].first)))
\* the FAT16 volume of the image mirrors the sysroot
FatMirrors(f, im, sysroot) ==
    \A path \in HostVisibleDirs(sysroot) :
        With(FatDirOf(f, im, path), LAMBDA c:
            /\ c # -1
            /\ ListingMatches(FatListing(FatDirOnDisk(f, im, c)),
                              HostEntries(sysroot, path)))

\* the records of an ISO 9660 directory whose bytes are d, from byte pos on,
\* up to a record length of 0: [name, is_dir, first (the extent's CD sector),
\* size]
RECURSIVE IsoRecordsOf(_, _)
IsoRecordsOf(d, pos) ==
    IF pos + 34 > Len(d) \/ d[pos + 1] = 0 THEN <<>>
    ELSE << [name |-> SubSeq(d, pos + 34, Min(Len(d), pos + 33 + d[pos + 33])),
             is_dir |-> (d[pos + 26] \div 2) % 2 = 1,
             first |-> UnpackLE(d, pos + 2, 2),
             size |-> UnpackLE(d, pos + 10, 3),
             pos |-> pos] >> \o IsoRecordsOf(d, pos + d[pos + 1])
\* the listing of the directory whose extent is at CD sector lba with len
\* bytes: its records but "." (0x00) and ".." (0x01)
IsoListing(im, lba, len) ==
    SelectSeq(IsoRecordsOf(ReadBytes(im, lba * ISO_BLOCK_SIZE, len), 0),
              LAMBDA r: r.name # <<0>> /\ r.name # <<1>>)
\* the root directory record of the PVD (CD sector 16, offset 156)
IsoRootOnDisk(im) ==
    With(ReadBytes(im, 16 * ISO_BLOCK_SIZE + 156, 34), LAMBDA r:
        [first |-> UnpackLE(r, 2, 2), size |-> UnpackLE(r, 10, 3)])
\* the directory record of the image directory that host directory path is
\* mirrored to, first = 0 when the image has none
RECURSIVE IsoDirOf(_, _)
IsoDirOf(im, path) ==
    IF path = <<>> THEN IsoRootOnDisk(im)
    ELSE With(IsoDirOf(im, SubSeq(path, 1, Len(path) - 1)), LAMBDA parent:
            IF parent.first = 0 THEN parent
            ELSE With(IsoListing(im, parent.first, parent.size), LAMBDA l:
                    With({i \in 1..Len(l) : l[i].name = Upper(path[Len(path)])
                                               /\ l[i].is_dir},
                         LAMBDA hits: IF hits = {} THEN [first |-> 0, size |-> 0]
                                      ELSE l[CHOOSE i \in hits : TRUE])))
\* the ISO 9660 image mirrors the sysroot
IsoMirrors(im, sysroot) ==
    \A path \in HostVisibleDirs(sysroot) :
        With(IsoDirOf(im, path), LAMBDA r:
            /\ r.first # 0
            /\ ListingMatches(IsoListing(im, r.first, r.size),
                              HostIsoEntries(sysroot, path)))

\* the entry a populate step works on is the least of those left in its
\* directory: the entries of a directory are taken in ascending order
PopulateInOrder ==
    (pc \in {"exfat_populate", "fat16_populate", "iso_collect"} /\ stack # <<>>) =>
        \A k \in 2..Len(stack[1].todo) : NameLess(stack[1].todo[1], stack[1].todo[k])
\* a directory is entered with all of its host entries to do
PopulateAll ==
    (pc \in {"exfat_populate", "fat16_populate", "iso_collect"} /\ stack # <<>>) =>
        \A k \in 1..Len(stack) :
            { stack[k].todo[i] : i \in 1..Len(stack[k].todo) }
                \subseteq { e.path[Len(e.path)] :
                              e \in { x \in Tree(args.sysroot) :
                                        /\ Len(x.path) = Len(stack[k].path) + 1
                                        /\ SubSeq(x.path, 1, Len(stack[k].path))
                                              = stack[k].path } }

\* C21: when a run has populated a filesystem from a host tree, every
\* directory of the image that mirrors a host directory lists the regular
\* files and directories of that host directory whose names do not start with
\* '.', each exactly once, and nothing else; nothing is listed for a '.'
\* entry or below one; the entries of a directory are processed in ascending
\* order of their names
C21_TreeMirrored ==
    /\ PopulateInOrder /\ PopulateAll
    /\ (pc = "done" /\ IsDir(args.sysroot)) =>
          CASE mode \in {"bios", "uefi"} -> ExfMirrors(exf, image, args.sysroot)
            [] mode = "fat16" -> FatMirrors(fat, image, args.sysroot)
            [] mode = "iso" -> IsoMirrors(image, args.sysroot)
            [] OTHER -> TRUE
\* C21 for the exFAT runs and for the ISO 9660 runs whose directories fit
\* their extents
ExfIsoTreeMirrored ==
    /\ PopulateInOrder /\ PopulateAll
    /\ (pc = "done" /\ IsDir(args.sysroot)) =>
          CASE mode \in {"bios", "uefi"} -> ExfMirrors(exf, image, args.sysroot)
            [] mode = "iso" /\ args.sysroot \notin CrowdTreeIds ->
                  IsoMirrors(image, args.sysroot)
            [] OTHER -> TRUE

-----------------------------------------------------------------------------
(* The fixed clusters of the exFAT volume *)

\* the clusters the allocator handed to objects of a kind
ExfOwnedBy(f, kind) ==
    UNION { f.owned[i].clusters : i \in { k \in 1..Len(f.owned) : f.owned[k].kind = kind } }
\* clusters 2, 3 and 4 are the bitmap's, the up-case table's and the root
\* directory's first, as the allocator recorded and as the volume says: the
\* VBR names root cluster 4, whose first three entries are the Bitmap entry
\* (cluster 2, (cluster_count + 7) div 8 bytes), the Up-case Table entry
\* (cluster 3, 256 bytes) and the Volume Label entry
ExfFixedClusters(f, im) ==
    /\ ExfOwnedBy(f, "bitmap") = {2}
    /\ ExfOwnedBy(f, "upcase") = {3}
    /\ ExfOwnedBy(f, "root") = {4}
    /\ UnpackLE(ReadBytes(im, f.fs_start * SECTOR_SIZE + 96, 4), 0, 4) = 4
    /\ With(ExfClusterOnDisk(f, im, 4), LAMBDA root:
          /\ root[1] = ENTRY_BITMAP /\ root[32 + 1] = ENTRY_UPCASE
          /\ root[64 + 1] = ENTRY_LABEL
          /\ UnpackLE(root, 20, 4) = 2
          /\ UnpackLE(root, 24, 4) = (f.cluster_count + 7) \div 8
          /\ UnpackLE(root, 32 + 20, 4) = 3
          /\ UnpackLE(root, 32 + 24, 4) = 256)
\* cluster 3 holds the up-case table and nothing else
ExfUpcaseIntact(f, im) ==
    ExfClusterOnDisk(f, im, 3) = ExfUpcaseData \o Zeros(f.cluster_size - 256)
\* the bitmap is no longer than the clusters allocated to it
ExfBitmapFits(f) ==
    Len(f.bitmap) <= Cardinality(ExfOwnedBy(f, "bitmap")) * f.cluster_size
\* C22: from init_fs until the image is persisted, cluster 2 of the exFAT
\* volume is the bitmap's, cluster 3 holds the up-case table and only it,
\* cluster 4 is the start of the root directory with the Bitmap, Up-case
\* Table and Volume Label entries first, and the VBR names root cluster 4; the
\* bitmap fits in the clusters allocated to it, so that the flush leaves the
\* up-case table as it was
C22_FixedClusters ==
    (exf.comp = "exfat" /\ exf.root_cluster # 0) =>
        /\ ExfFixedClusters(exf, image)
        /\ ExfBitmapFits(exf)
        /\ ExfUpcaseIntact(exf, image)
\* C22 for the volumes of at most 8 * 4096 clusters
SmallVolumeFixedClusters ==
    (exf.comp = "exfat" /\ exf.root_cluster # 0 /\ exf.cluster_count <= 8 * exf.cluster_size) =>
        /\ ExfFixedClusters(exf, image)
        /\ ExfBitmapFits(exf)
        /\ ExfUpcaseIntact(exf, image)
\* on every volume the fixed clusters are as C22 says; only the room of the
\* bitmap and the content of cluster 3 depend on the size
FixedClustersAnySize ==
    (exf.comp = "exfat" /\ exf.root_cluster # 0) => ExfFixedClusters(exf, image)

-----------------------------------------------------------------------------
(* Cluster runs and chains of the exFAT volume *)

\* the four bytes of the entry of cluster c in the FAT cache
ExfCacheEntry(f, c) == SubSeq(f.fat_cache, c * 4 + 1, c * 4 + 4)
\* bit n of the bitmap says cluster n + 2 is allocated
ExfBitmapBit(f, c) == (f.bitmap[(c - 2) \div 8 + 1] \div (2 ^ ((c - 2) % 8))) % 2 = 1
\* the chain from cluster c in the FAT cache ends in 0xFFFFFFFF after at most
\* fuel further clusters of the heap
RECURSIVE ExfChainEnds(_, _, _)
ExfChainEnds(f, c, fuel) ==
    With(ExfCacheEntry(f, c), LAMBDA e:
        \/ e = EXFAT_EOC
        \/ /\ fuel > 0 /\ e[3] = 0 /\ e[4] = 0
           /\ UnpackLE(e, 0, 2) \in 2..(f.cluster_count + 1)
           /\ ExfChainEnds(f, UnpackLE(e, 0, 2), fuel - 1))
\* the entry sets of all directories of the volume, read from the image
ExfAllEntrySets(f, im) ==
    UNION { ExfEntrySetsOf(ExfClusterOnDisk(f, im, c)) : c \in ExfDirClusters(f) }
\* the entry set of a directory
ExfIsDirSet(es) == (es[5] \div ATTR_DIRECTORY) % 2 = 1
\* a non-empty file's entry set: NoFatChain is set, the run of
\* ceil(DataLength / cluster_size) clusters from FirstCluster lies in the heap,
\* its FAT entries are 0 and its bitmap bits are set
ExfFileRunRight(f, es) ==
    LET first == UnpackLE(es, 32 + 20, 2)
        n == CeilDiv(UnpackLE(es, 32 + 24, 3), f.cluster_size)
    IN  /\ (es[32 + 2] \div FLAG_CONTIGUOUS) % 2 = 1
        /\ first >= 2 /\ first + n - 1 <= f.cluster_count + 1
        /\ \A c \in first..(first + n - 1) :
              ExfCacheEntry(f, c) = <<0, 0, 0, 0>> /\ ExfBitmapBit(f, c)
\* a directory's entry set: NoFatChain is clear and the chain from
\* FirstCluster ends in 0xFFFFFFFF
ExfDirChainRight(f, es) ==
    /\ (es[32 + 2] \div FLAG_CONTIGUOUS) % 2 = 0
    /\ UnpackLE(es, 32 + 20, 2) \in 2..(f.cluster_count + 1)
    /\ ExfChainEnds(f, UnpackLE(es, 32 + 20, 2), Cardinality(ExfDirClusters(f)))
C23_State ==
    (exf.comp = "exfat" /\ exf.root_cluster # 0) =>
        /\ ExfChainEnds(exf, exf.root_cluster, Cardinality(ExfDirClusters(exf)))
        /\ \E sets \in {ExfAllEntrySets(exf, image)} :
              \A es \in sets :
                 IF ExfIsDirSet(es) THEN ExfDirChainRight(exf, es)
                 ELSE UnpackLE(es, 32 + 24, 3) > 0 => ExfFileRunRight(exf, es)
\* a directory whose entry set a step has added has one cluster: the FAT entry
\* of its first cluster is end-of-chain
C23_Step ==
    (exf.comp = "exfat" /\ exf'.comp = "exfat" /\ exf.root_cluster # 0) =>
        \E before \in {ExfAllEntrySets(exf, image)} :
            \A es \in ExfAllEntrySets(exf', image') :
                (ExfIsDirSet(es) /\ es \notin before) =>
                    ExfCacheEntry(exf', UnpackLE(es, 32 + 20, 2)) = EXFAT_EOC
\* C23: on the exFAT volume every non-empty file occupies a run of
\* consecutive clusters, its Stream Extension has NoFatChain (0x02) set and the
\* FAT entries of its clusters stay 0 while the bitmap marks them; every
\* directory is created with one cluster whose FAT entry is end-of-chain, its
\* Stream Extension has NoFatChain clear, and the FAT chain of a directory
\* always ends in 0xFFFFFFFF
C23_ChainsAndFlags == [](C23_State) /\ [][C23_Step]_vars
\* a written volume holds a file of several clusters and a subdirectory, or a
\* root directory that was extended by a cluster
C23_Witness ==
    /\ exf.comp = "exfat" /\ pc = "done"
    /\ \/ \E es \in ExfAllEntrySets(exf, image) :
             /\ ~ExfIsDirSet(es) /\ UnpackLE(es, 32 + 24, 3) > exf.cluster_size
             /\ \E ds \in ExfAllEntrySets(exf, image) : ExfIsDirSet(ds)
       \/ ExfCacheEntry(exf, exf.root_cluster) # EXFAT_EOC

-----------------------------------------------------------------------------
(* Placement of entry sets in exFAT directories *)

\* the clusters of the chain from cluster first in the FAT cache, in chain
\* order (at most fuel + 1 of them)
RECURSIVE ExfCacheChain(_, _, _)
ExfCacheChain(f, c, fuel) ==
    With(ExfCacheEntry(f, c), LAMBDA e:
        IF fuel = 0 \/ e[3] # 0 \/ e[4] # 0 \/ UnpackLE(e, 0, 2) < 2
        THEN <<c>>
        ELSE <<c>> \o ExfCacheChain(f, UnpackLE(e, 0, 2), fuel - 1))
\* slot j of directory bytes d
SlotOf(d, j) == SubSeq(d, j * 32 + 1, j * 32 + 32)
\* the slots of a cluster whose bytes a step has changed
ChangedSlots(d, e) == { j \in 0..(Len(d) \div 32 - 1) : SlotOf(d, j) # SlotOf(e, j) }
\* directory bytes d have cnt consecutive slots that are not in use
HasFreeRun(d, cnt) ==
    \E a \in 0..(Len(d) \div 32 - cnt) : \A j \in a..(a + cnt - 1) : d[j * 32 + 1] < 128
\* the slots a..a + cnt - 1 of directory bytes d hold one entry set: a File
\* entry that counts cnt - 1 secondary entries, a Stream Extension and
\* FileName entries
HoldsSetAt(d, a, cnt) ==
    /\ d[a * 32 + 1] = ENTRY_FILE /\ d[a * 32 + 2] = cnt - 1
    /\ d[(a + 1) * 32 + 1] = ENTRY_STREAM
    /\ \A j \in (a + 2)..(a + cnt - 1) : d[j * 32 + 1] = ENTRY_FILENAME
\* the number of slots of the entry set of a name
SlotsOfName(name) == 2 + (Len(name) + 14) \div 15
\* the step that adds the entry set of host entry `name` (cnt slots) to the
\* directory at cluster parent, whose object takes own clusters
PlacedRight(parent, cnt, own) ==
    \E old \in {ExfCacheChain(exf, parent, Cardinality(ExfDirClusters(exf)))} :
    \E new \in {ExfCacheChain(exf', parent, Cardinality(ExfDirClusters(exf')))} :
    \E B \in {[k \in 1..Len(old) |-> ExfClusterOnDisk(exf, image, old[k])]} :
    \E A \in {[k \in 1..Len(old) |-> ExfClusterOnDisk(exf', image', old[k])]} :
    \E touched \in {{ k \in 1..Len(old) : B[k] # A[k] }} :
    \E last \in {exf'.next_cluster - 1} :
        /\ \A c \in ExfDirClusters(exf) \ { old[k] : k \in 1..Len(old) } :
              ExfClusterOnDisk(exf, image, c) = ExfClusterOnDisk(exf', image', c)
        /\ \A k \in touched : \A j \in 0..(Len(B[k]) \div 32 - 1) :
              B[k][j * 32 + 1] >= 128 => SlotOf(B[k], j) = SlotOf(A[k], j)
        /\ IF \E k \in 1..Len(old) : HasFreeRun(B[k], cnt)
           THEN /\ new = old
                /\ exf'.next_cluster = exf.next_cluster + own
                /\ Cardinality(touched) = 1
                /\ \A k \in touched :
                      \E a \in 0..(Len(B[k]) \div 32 - cnt) :
                          /\ HoldsSetAt(A[k], a, cnt)
                          /\ ChangedSlots(B[k], A[k]) = a..(a + cnt - 1)
           ELSE /\ new = Append(old, last)
                /\ exf'.next_cluster = exf.next_cluster + own + 1
                /\ last \notin AllOwned(exf.owned)
                /\ touched = {}
                /\ ExfCacheEntry(exf', last) = EXFAT_EOC
                /\ \E d \in {ExfClusterOnDisk(exf', image', last)} :
                      /\ HoldsSetAt(d, 0, cnt)
                      /\ \A j \in cnt..(Len(d) \div 32 - 1) : d[j * 32 + 1] = 0
\* a populate step that went through has placed the entry set of its host
\* entry as _add_entry_to_dir is to place it
C24_Step ==
    (pc = "exfat_populate" /\ err' = "" /\ stack[1].todo[1][1] # 46) =>
        \E e \in {EntryAt(args.sysroot, Append(stack[1].path, stack[1].todo[1]))} :
            e.kind # "other" =>
                PlacedRight(stack[1].parent, SlotsOfName(stack[1].todo[1]),
                            IF e.kind = "dir" THEN 1
                            ELSE CeilDiv(BLen(e.data), exf.cluster_size))
\* the chain of the directory an entry set is added to is finite, so the
\* walk of _add_entry_to_dir over it ends
C24_State ==
    (pc = "exfat_populate" /\ stack # <<>>) =>
        ExfChainEnds(exf, stack[1].parent, Cardinality(ExfDirClusters(exf)))
\* C24: _add_entry_to_dir places every entry set in consecutive slots of one
\* cluster of the chain of the target directory and leaves every in-use slot
\* as it was; when no cluster of the chain has a free run of the set's
\* length, one new cluster is allocated, linked from the last cluster of the
\* chain, and holds the set from slot 0; the walk over the chain ends
C24_EntryPlacement == [](C24_State) /\ [][C24_Step]_vars
\* a written volume whose root directory chain has a second cluster that
\* starts with an entry set
C24_Witness ==
    /\ exf.comp = "exfat" /\ pc = "done"
    /\ \E ch \in {ExfCacheChain(exf, exf.root_cluster, 8)} :
          Len(ch) >= 2 /\ ExfClusterOnDisk(exf, image, ch[2])[1] = ENTRY_FILE

-----------------------------------------------------------------------------
(* The layout of the CD image *)

\* the path under which the ISO creator keeps a host path: "/" and the names
RECURSIVE IsoPathOf(_)
IsoPathOf(path) ==
    IF path = <<>> THEN <<47>>
    ELSE IF Len(path) = 1 THEN <<47>> \o path[1]
    ELSE IsoPathOf(SubSeq(path, 1, Len(path) - 1)) \o <<47>> \o path[Len(path)]
\* the host files that go on the CD
HostVisibleFiles(sysroot) ==
    { x \in Tree(sysroot) : /\ x.kind = "file"
                            /\ \A i \in 1..Len(x.path) : x.path[i][1] # 46 }
\* the CD sectors of an object of len bytes that starts at sector first (one
\* sector at least)
SectorsOf(first, len) == first..(first + Max(1, CeilDiv(len, ISO_BLOCK_SIZE)) - 1)
\* the extents the layout lay assigns: the sector sets of the directories,
\* the kernel and the files
IsoExtents(lay, kernel, files) ==
    [k \in 1..Len(lay.all_dirs) |-> {lay.dir_lbas[lay.all_dirs[k]]}]
      \o (IF BLen(kernel) > 0 THEN <<SectorsOf(lay.kernel_lba, BLen(kernel))>> ELSE <<>>)
      \o [k \in 1..Len(lay.all_files) |->
            SectorsOf(lay.file_lbas[lay.all_files[k]], BLen(files[lay.all_files[k]]))]
\* the layout lay is the one C25 describes for the sysroot and the kernel
IsoLayoutRight(lay, sysroot, kernel) ==
    \E dirs \in {SortNames({ IsoPathOf(p) : p \in HostVisibleDirs(sysroot) })} :
    \E files \in {SortNames({ IsoPathOf(e.path) : e \in HostVisibleFiles(sysroot) })} :
    \E size \in {[q \in { IsoPathOf(e.path) : e \in HostVisibleFiles(sysroot) } |->
                    BLen((CHOOSE e \in HostVisibleFiles(sysroot) :
                             IsoPathOf(e.path) = q).data)]} :
    \E kernel_lba \in {Max(32, 22 + Len(dirs))} :
        /\ lay.all_dirs = dirs /\ lay.all_files = files
        /\ \A k \in 1..Len(dirs) : lay.dir_lbas[dirs[k]] = 21 + k
        /\ lay.kernel_lba = kernel_lba
        /\ \A k \in 1..Len(files) :
              lay.file_lbas[files[k]] =
                  FoldRange(LAMBDA at, j:
                              at + Max(1, CeilDiv(size[files[j]], ISO_BLOCK_SIZE)),
                            kernel_lba + CeilDiv(BLen(kernel), ISO_BLOCK_SIZE), 1, k - 1)
\* the written image has the length of the layout, names it in the PVD
\* (Volume Space Size, offset 80 of CD sector 16) and carries the kernel and
\* the files in their extents
IsoImageAsLaidOut(lay, im, kernel, files) ==
    \E ext \in {IsoExtents(lay, kernel, files)} :
    \E last \in {CHOOSE m \in UNION {ext[k] : k \in 1..Len(ext)} :
                    \A k \in 1..Len(ext) : \A x \in ext[k] : x <= m} :
        /\ \A i, j \in 1..Len(ext) : i # j => ext[i] \cap ext[j] = {}
        /\ \A k \in 1..Len(ext) : \A x \in ext[k] : x >= 22
        /\ im.len = (last + 1) * ISO_BLOCK_SIZE
        /\ UnpackLE(ReadBytes(im, 16 * ISO_BLOCK_SIZE + 80, 4), 0, 3) = last + 1
        /\ KernelBytesAt(im, lay.kernel_lba * 4, kernel)
        /\ \A k \in 1..Len(lay.all_files) :
              KernelBytesAt(im, lay.file_lbas[lay.all_files[k]] * 4, files[lay.all_files[k]])
\* C25: in a written CD image the directory extents have the consecutive CD
\* sectors from 22 on in the order of the sorted paths, the kernel is at CD
\* sector max(32, 22 + number of directories), every file has, in the order
\* of the sorted paths, max(1, ceil(size / 2048)) consecutive sectors right
\* after the kernel; the extents are pairwise disjoint and none overlaps
\* sectors 0-21; the length of the image is (last assigned sector + 1) x 2048
\* and its sector count is the Volume Space Size of the PVD
C25_IsoLayout ==
    (mode = "iso" /\ pc = "done" /\ IsDir(args.sysroot)) =>
        /\ IsoLayoutRight(iso.layout, args.sysroot, locals.kernel)
        /\ IsoImageAsLaidOut(iso.layout, image, locals.kernel, iso.files)
\* a CD was written whose directories run past CD sector 32, or that carries
\* a file of several sectors
C25_Witness ==
    /\ mode = "iso" /\ pc = "done" /\ IsDir(args.sysroot)
    /\ \/ iso.layout.kernel_lba > 32
       \/ \E q \in DOMAIN iso.files : BLen(iso.files[q]) > ISO_BLOCK_SIZE

-----------------------------------------------------------------------------
(* The one-sector extents of the CD image *)

\* the bytes d are ISO_BLOCK_SIZE bytes at most and CD sector lba of the image
\* holds them
InOneSector(im, lba, d) ==
    /\ Len(d) <= ISO_BLOCK_SIZE
    /\ ReadBytes(im, lba * ISO_BLOCK_SIZE, Len(d)) = d
\* every directory extent and both path tables of the written image are
\* within the sector assigned to them and are found there
IsoExtentsFit(c, im) ==
    /\ \A d \in DOMAIN c.dirs :
          InOneSector(im, c.layout.dir_lbas[d], IsoDirExtent(IsoDirRecords(c, c.layout, d)))
    /\ InOneSector(im, 20, IsoPathTable(c.layout, FALSE))
    /\ InOneSector(im, 21, IsoPathTable(c.layout, TRUE))
\* C26: in every written CD image each directory's records and each path
\* table occupy the one CD sector assigned to them and nothing else: they do
\* not reach into the sector of another directory, of the other path table,
\* of the kernel or of a file
C26_ExtentsFit ==
    (mode = "iso" /\ pc = "done" /\ IsDir(args.sysroot)) => IsoExtentsFit(iso, image)
\* C26 for the sysroots whose directories and path tables are short
ShortExtentsFit ==
    (mode = "iso" /\ pc = "done" /\ IsDir(args.sysroot) /\ args.sysroot \notin CrowdTreeIds)
        => IsoExtentsFit(iso, image)

-----------------------------------------------------------------------------
(* The geometry of the FAT16 volume *)

\* one FAT copy has a 16-bit entry for every cluster number 0..total_clusters + 1
FatHoldsAllClusters(f) == f.fat_size * SECTOR_SIZE >= (f.total_clusters + 2) * 2
\* the regions of the volume end within fs_sectors
FatRegionsWithinVolume(f) ==
    f.reserved_sectors + f.num_fats * f.fat_size + f.root_dir_sectors
        + f.total_clusters * f.sectors_per_cluster <= f.fs_sectors
\* C27: the geometry of every Fat16Formatter is self-consistent: a FAT copy
\* has room for the entries of all cluster numbers 0..total_clusters + 1, and
\* the reserved sectors, both FATs, the root directory and the data clusters
\* end within fs_sector_count
C27_Geometry ==
    fat.comp = "fat16" => FatHoldsAllClusters(fat) /\ FatRegionsWithinVolume(fat)
\* the second half of C27 alone
RegionsWithinVolume ==
    fat.comp = "fat16" => FatRegionsWithinVolume(fat)

-----------------------------------------------------------------------------
(* Long and short names of the FAT16 directories *)

\* a name that does not fit an 8.3 entry as it is: mixed case, more than 12
\* characters, more than one dot, a base of more than 8 or an extension of
\* more than 3 characters, or one of the characters ' +,;=[]'
LfnNeeded(name) ==
    \/ Len(name) > 12
    \/ name # Upper(name)
    \/ Cardinality({i \in 1..Len(name) : name[i] = 46}) > 1
    \/ Len(SplitBase(name)) > 8 \/ Len(SplitExt(name)) > 3
    \/ \E i \in 1..Len(name) : name[i] \in {32, 43, 44, 59, 61, 91, 93}
\* the checksum a reader computes over the 11 bytes of a short name
LfnSumOf(name83) ==
    FoldRange(LAMBDA sum, i: ((sum % 2) * 128 + (sum \div 2) + name83[i]) % 256,
              0, 1, Len(name83))
\* the directory bytes d hold, for the 8.3 entry rec of the listing, the
\* entries that belong to name: ceil(len / 13) LFN entries right before it,
\* numbered downwards to 1 with 0x40 on the first, with attribute 0x0F, the
\* checksum of the short name and the name, one 0x0000 and 0xFFFF padding;
\* or, for a name that fits, the 8.3 entry alone with the name itself
SetWellFormed(d, rec, name) ==
    IF LfnNeeded(name)
    THEN \E n \in {CeilDiv(Len(name), 13)} :
            /\ rec.lfn_entries = n /\ rec.slot >= n
            /\ \A i \in 1..n :
                  /\ d[(rec.slot - i) * 32 + 1] = i + (IF i = n THEN 64 ELSE 0)
                  /\ d[(rec.slot - i) * 32 + 12] = 15
                  /\ d[(rec.slot - i) * 32 + 14] = LfnSumOf(rec.name83)
            /\ FoldRange(LAMBDA acc, i: acc \o LfnUnits(d, rec.slot - i), <<>>, 1, n)
                  = [k \in 1..(n * 13) |->
                        IF k <= Len(name) THEN name[k]
                        ELSE IF k = Len(name) + 1 THEN 0 ELSE 65535]
    ELSE /\ rec.lfn_entries = 0
         /\ (rec.slot > 0 => d[(rec.slot - 1) * 32 + 12] # 15)
         /\ rec.name83 = LJust(SplitBase(name), 8) \o LJust(SplitExt(name), 3)
\* every entry of the FAT16 directories that mirror the host directories is
\* well formed for the name it carries
FatSetsWellFormed(f, im, sysroot) ==
    \A path \in HostVisibleDirs(sysroot) :
        \E c \in {FatDirOf(f, im, path)} :
            c # -1 =>
                \E d \in {FatDirOnDisk(f, im, c)} :
                \E l \in {FatListing(d)} :
                    \A i \in 1..Len(l) : SetWellFormed(d, l[i], l[i].name)
\* every host entry has a well-formed entry in the FAT16 directory of its
\* host directory
FatNamesWritten(f, im, sysroot) ==
    \A path \in HostVisibleDirs(sysroot) :
        \E c \in {FatDirOf(f, im, path)} :
            /\ c # -1
            /\ \E d \in {FatDirOnDisk(f, im, c)} :
               \E l \in {FatListing(d)} :
                   \A e \in HostVisible(sysroot, path) :
                       \E i \in 1..Len(l) :
                           /\ l[i].name = e.path[Len(e.path)]
                           /\ SetWellFormed(d, l[i], l[i].name)
\* C28: for a name that needs LFN the FAT16 formatter writes ceil(len / 13)
\* LFN entries right before the 8.3 entry, numbered downwards (0x40 on the
\* first on disk, 1 next to the 8.3 entry), each with attribute 0x0F and the
\* checksum of the short name of the 8.3 entry that follows, the name
\* followed by one 0x0000 and 0xFFFF padding when it does not fill the last
\* entry; a name that needs no LFN gets a single upper-case 8.3 entry
C28_LfnEntries ==
    (mode = "fat16" /\ pc = "done" /\ IsDir(args.sysroot)) =>
        FatNamesWritten(fat, image, args.sysroot)
\* what the directories hold is well formed, in every state of a FAT16 run
WrittenSetsWellFormed ==
    (mode = "fat16" /\ fat.comp = "fat16" /\ IsDir(args.sysroot)) =>
        FatSetsWellFormed(fat, image, args.sysroot)

\* no two entries of a FAT16 directory that mirrors a host directory carry
\* the same 11 bytes of short name
FatShortNamesDistinct(f, im, sysroot) ==
    \A path \in HostVisibleDirs(sysroot) :
        \E c \in {FatDirOf(f, im, path)} :
            c # -1 =>
                \E l \in {FatListing(FatDirOnDisk(f, im, c))} :
                    \A i, j \in 1..Len(l) : i # j => l[i].name83 # l[j].name83
\* C29: whatever files and directories with pairwise distinct names were added
\* to a directory by one Fat16Formatter, no two entries of the directory
\* carry the same 11-byte 8.3 short name, be it generated with a ~N tail or
\* taken from the name as it is
C29_ShortNamesUnique ==
    (mode = "fat16" /\ fat.comp = "fat16" /\ IsDir(args.sysroot)) =>
        FatShortNamesDistinct(fat, image, args.sysroot)
\* C29 for the sysroots without a name that has the form of a generated one
NoTildeShortNamesUnique ==
    (mode = "fat16" /\ fat.comp = "fat16" /\ IsDir(args.sysroot)
        /\ args.sysroot \notin ClashTreeIds) =>
        FatShortNamesDistinct(fat, image, args.sysroot)

-----------------------------------------------------------------------------
(* End-of-directory slots of the exFAT directories *)

\* the type bytes of the slots of the directory whose first cluster is first,
\* in the order of its chain in the FAT cache
ExfSlotTypes(f, im, first) ==
    With(ExfCacheChain(f, first, Cardinality(ExfDirClusters(f))), LAMBDA chain:
        FoldRange(LAMBDA acc, k:
                    With(ExfClusterOnDisk(f, im, chain[k]), LAMBDA d:
                        acc \o [j \in 1..(Len(d) \div 32) |-> d[(j - 1) * 32 + 1]]),
                  <<>>, 1, Len(chain)))
\* the first clusters of the directories of the volume: the root's and those
\* the directory entry sets name
ExfDirFirsts(f, im) ==
    {f.root_cluster}
      \cup { UnpackLE(es, 32 + 20, 2) : es \in { x \in ExfAllEntrySets(f, im) : ExfIsDirSet(x) } }
\* no in-use type (bit 0x80) follows an end-of-directory type (0x00)
InUseIsPrefix(types) ==
    \A i \in 1..Len(types) :
        types[i] = 0 => \A j \in (i + 1)..Len(types) : types[j] < 128
\* C30: in every exFAT directory, whatever was inserted and however the
\* directory was extended, the slots read in the order of the FAT chain have
\* no in-use entry after an end-of-directory slot: the in-use entries form a
\* prefix of the chain
C30_InUsePrefix ==
    (exf.comp = "exfat" /\ exf.root_cluster # 0) =>
        \A first \in ExfDirFirsts(exf, image) :
            InUseIsPrefix(ExfSlotTypes(exf, image, first))
\* within every single directory cluster the in-use entries do form a prefix
InUsePrefixPerCluster ==
    (exf.comp = "exfat" /\ exf.root_cluster # 0) =>
        \A c \in ExfDirClusters(exf) :
            With(ExfClusterOnDisk(exf, image, c), LAMBDA d:
                InUseIsPrefix([j \in 1..(Len(d) \div 32) |-> d[(j - 1) * 32 + 1]]))

=============================================================================
